---- MODULE Spec2Model ----
(***************************************************************************)
(* Model of the warehouse synchronisation backend:                         *)
(*   - the reconciliation step of sync_warehouse_data (main.py), i.e.      *)
(*     api_data + existing_data followed by deduplicate_items;             *)
(*   - the in-memory token store of auth.py (create_token,                 *)
(*     set_external_api_token, is_token_expired,                           *)
(*     refresh_external_api_token, get_external_api_authorization) as it   *)
(*     is driven by the login routes of routers/auth.py.                   *)
(***************************************************************************)
EXTENDS Integers, Sequences, FiniteSets, TLC

(***************************************************************************)
(* Bounds of the model.                                                    *)
(***************************************************************************)
\* largest number of records in api_data + existing_data
MaxLen == 3
\* clock ticks per hour: the resolution at which datetime.now() is observed
TicksPerHour == 2
\* the clock stops advancing at this many ticks
MaxTime == 4
\* page_size of a listing request (100 in the callers), scaled down
PageSize == 2
\* largest total_pages the upstream reports
MaxPages == 3
\* batch_size of insert_items_batch (1000), scaled down
BatchSize == 2
\* largest number of records handed to insert_items_batch
MaxItems == 3
\* calls of sync_warehouse_data that may be served at once
MaxCalls == 2

(***************************************************************************)
(* Part 1.  Reconciliation (main.py).                                      *)
(***************************************************************************)

\* WarehouseItem.id values (the three ids of the documented scenario)
Ids == {1, 5, 7}
\* WarehouseItem.tracking_number values
TrackingNumbers == {"T1", "T2"}
\* one of the opaque payload fields of a WarehouseItem
Zones == {"Z1", "Z2"}

\* WarehouseItem, reduced to the identity, the business key and one payload
\* field (every other field is carried along exactly like zone).
WarehouseItem == [id : Ids, tracking_number : TrackingNumbers, zone : Zones]

VARIABLES
    api_data,       \* sync_warehouse_data: records fetched from the API
    existing_data,  \* sync_warehouse_data: rows read from the table
    all_data,       \* sync_warehouse_data: api_data + existing_data
    unique_items,   \* sync_warehouse_data: deduplicate_items(all_data)
    again_items,    \* deduplicate_items(unique_items + [])
    sync_pc         \* position in the reconciliation: "merge", "dedup", "again", "done"

dedupVars == <<api_data, existing_data, all_data, unique_items, again_items, sync_pc>>

VARIABLES
    valid_tokens,         \* auth.py: token -> username
    external_api_tokens,  \* auth.py: local_token -> external_api_token
    token_timestamps,     \* auth.py: token -> timestamp
    token_credentials,    \* auth.py: token -> (username, password)
    now,                  \* the value datetime.now() returns, in ticks
    req,                  \* the calls of get_external_api_authorization in progress
    issued_at,            \* history: token -> time at which create_token issued it
    attached_at           \* history: token -> time at which its upstream token was last stored

storeVars == <<valid_tokens, external_api_tokens, token_timestamps, token_credentials>>
authVars == <<valid_tokens, external_api_tokens, token_timestamps, token_credentials,
              now, req, issued_at, attached_at>>

VARIABLES
    fetch           \* external_api.py: one call of get_warehouse_data

fetchVars == <<fetch>>

VARIABLES
    gather,         \* main.py: one call of get_warehouse_data_concurrent
    tasks           \* main.py: its get_warehouse_data_for_single_warehouse tasks

gatherVars == <<gather, tasks>>

VARIABLES
    client          \* external_api.py: one call of login or get_scan_records

requestVars == <<client>>

VARIABLES
    table,          \* the rows of recent_inactivity_records, by id
    rejected,       \* the ids of the records the storage rejects
    writer          \* main.py: one call of insert_items_batch

writerVars == <<table, rejected, writer>>

VARIABLES
    events,         \* history: the steps of the resynchronisation so far
    before,         \* history: the table when the resynchronisation was requested
    observed        \* what a reader of the table saw

syncVars == <<events, before, observed>>

VARIABLES
    consjob,        \* the rows of the table consjob, in insertion order
    saved,          \* history: the keys save_consjob_data wrote
    job             \* routers/consjob.py: one call of get_consjob with sync=true

consjobVars == <<consjob, saved, job>>

VARIABLES
    syncs           \* main.py: the calls of sync_warehouse_data being served

overlapVars == <<syncs>>

VARIABLES
    runs            \* main.py: the locals of each overlapping call of sync_warehouse_data

raceVars == <<runs>>

VARIABLES
    last_set        \* history: what the last direct call of set_external_api_token met

storeCallVars == <<last_set>>

VARIABLES
    finished        \* history: the refreshes in the order in which they completed

refreshVars == <<finished>>

VARIABLES
    loop            \* main.py: the while loop of get_warehouse_data_for_single_warehouse

loopVars == <<loop>>

vars == <<api_data, existing_data, all_data, unique_items, again_items, sync_pc,
          valid_tokens, external_api_tokens, token_timestamps, token_credentials,
          now, req, issued_at, attached_at, fetch, gather, tasks, client, table, rejected, writer, events, before, observed, consjob, saved, job, syncs, runs, last_set, finished, loop>>
\* what each part of the model leaves alone
notDedupVars == <<authVars, fetchVars, gatherVars, requestVars, writerVars, syncVars, consjobVars, overlapVars, raceVars, storeCallVars, refreshVars, loopVars>>
notAuthVars == <<dedupVars, fetchVars, gatherVars, requestVars, writerVars, syncVars, consjobVars, overlapVars, raceVars, storeCallVars, refreshVars, loopVars>>
notFetchVars == <<dedupVars, authVars, gatherVars, requestVars, writerVars, syncVars, consjobVars, overlapVars, raceVars, storeCallVars, refreshVars, loopVars>>
notGatherVars == <<dedupVars, authVars, fetchVars, requestVars, writerVars, syncVars, consjobVars, overlapVars, raceVars, storeCallVars, refreshVars, loopVars>>
notRequestVars == <<authVars, fetchVars, gatherVars, dedupVars, writerVars, syncVars, consjobVars, overlapVars, raceVars, storeCallVars, refreshVars, loopVars>>
notWriterVars == <<authVars, fetchVars, gatherVars, requestVars, dedupVars, syncVars, consjobVars, overlapVars, raceVars, storeCallVars, refreshVars, loopVars>>
notConsjobVars == <<authVars, fetchVars, gatherVars, requestVars, writerVars, syncVars, dedupVars, overlapVars, raceVars, storeCallVars, refreshVars, loopVars>>
notOverlapVars == <<authVars, fetchVars, gatherVars, requestVars, writerVars, syncVars, consjobVars, dedupVars, raceVars, storeCallVars, refreshVars, loopVars>>
notRaceVars == <<authVars, fetchVars, gatherVars, requestVars, writerVars, syncVars, consjobVars, overlapVars, dedupVars, storeCallVars, refreshVars, loopVars>>
notStoreCallVars == <<authVars, fetchVars, gatherVars, requestVars, writerVars, syncVars, consjobVars, overlapVars, raceVars, dedupVars, refreshVars, loopVars>>
notRefreshVars == <<fetchVars, gatherVars, requestVars, writerVars, syncVars, consjobVars, overlapVars, raceVars, storeCallVars, dedupVars, loopVars>>
notLoopVars == <<authVars, fetchVars, gatherVars, requestVars, writerVars, syncVars, consjobVars, overlapVars, raceVars, storeCallVars, refreshVars, dedupVars>>

\* index of the entry of unique_map (insertion-ordered dict, held as the
\* sequence of its values) whose key is tn, 0 when tn is not a key
KeyIndex(unique_map, tn) ==
    IF \E i \in 1..Len(unique_map) : unique_map[i].tracking_number = tn
    THEN CHOOSE i \in 1..Len(unique_map) : unique_map[i].tracking_number = tn
    ELSE 0

\* mutants of the loop body of deduplicate_items
dedup_step_last_wins(unique_map, item) ==
    LET k == KeyIndex(unique_map, item.tracking_number) IN
    IF k = 0 THEN Append(unique_map, item)
    ELSE IF unique_map[k].id <= item.id
         THEN [unique_map EXCEPT ![k] = item]
         ELSE unique_map

dedup_step_append(unique_map, item) ==
    LET k == KeyIndex(unique_map, item.tracking_number) IN
    IF k = 0 \/ unique_map[k].id < item.id THEN Append(unique_map, item)
    ELSE unique_map

\* mutant: the first record of a key stays, whatever the ids
dedup_step_first_only(unique_map, item) ==
    IF KeyIndex(unique_map, item.tracking_number) = 0
    THEN Append(unique_map, item)
    ELSE unique_map

dedup_step_smaller(unique_map, item) ==
    LET k == KeyIndex(unique_map, item.tracking_number) IN
    IF k = 0 THEN Append(unique_map, item)
    ELSE IF unique_map[k].id > item.id
         THEN [unique_map EXCEPT ![k] = item]
         ELSE unique_map

dedup_step_field_merge(unique_map, item) ==
    LET k == KeyIndex(unique_map, item.tracking_number) IN
    IF k = 0 THEN Append(unique_map, item)
    ELSE IF unique_map[k].id < item.id
         THEN [unique_map EXCEPT ![k].id = item.id]
         ELSE unique_map

\* one iteration of "for item in items" (main.py 238-241): a new key is
\* appended to the dict, an existing key keeps its position and gets the
\* item only when the stored id is strictly smaller
dedup_step(unique_map, item) ==
    LET k == KeyIndex(unique_map, item.tracking_number) IN
    IF k = 0 THEN Append(unique_map, item)
    ELSE IF unique_map[k].id < item.id
         THEN [unique_map EXCEPT ![k] = item]
         ELSE unique_map

RECURSIVE dedup_loop(_, _)
dedup_loop(items, unique_map) ==
    IF items = <<>> THEN unique_map
    ELSE dedup_loop(Tail(items), dedup_step(unique_map, Head(items)))

\* mutant: the loop skips the first item
deduplicate_items_skip_first(items) ==
    IF items = <<>> THEN <<>> ELSE dedup_loop(Tail(items), <<>>)

\* deduplicate_items: list(unique_map.values()) after the loop
deduplicate_items(items) == dedup_loop(items, <<>>)

\* all sequences over S of length n, and of length at most n
SeqOfLen(S, n) == [1..n -> S]
SeqUpTo(S, n) == UNION {SeqOfLen(S, k) : k \in 0..n}

DedupInit ==
    /\ api_data \in SeqUpTo(WarehouseItem, MaxLen)
    /\ existing_data \in SeqUpTo(WarehouseItem, MaxLen - Len(api_data))
    /\ all_data = <<>>
    /\ unique_items = <<>>
    /\ again_items = <<>>
    /\ sync_pc = "merge"

\* main.py 592: all_data = api_data + existing_data
Merge ==
    /\ sync_pc = "merge"
    /\ all_data' = api_data \o existing_data
    /\ sync_pc' = "dedup"
    /\ UNCHANGED <<api_data, existing_data, unique_items, again_items>>
    /\ UNCHANGED notDedupVars

\* main.py 596: unique_items = deduplicate_items(all_data)
Deduplicate ==
    /\ sync_pc = "dedup"
    /\ unique_items' = deduplicate_items(all_data)
    /\ sync_pc' = "again"
    /\ UNCHANGED <<api_data, existing_data, all_data, again_items>>
    /\ UNCHANGED notDedupVars

\* a second reconciliation of the reconciled set with nothing else
DeduplicateAgain ==
    /\ sync_pc = "again"
    /\ again_items' = deduplicate_items(unique_items \o <<>>)
    /\ sync_pc' = "done"
    /\ UNCHANGED <<api_data, existing_data, all_data, unique_items>>
    /\ UNCHANGED notDedupVars

DedupNext == Merge \/ Deduplicate \/ DeduplicateAgain

(***************************************************************************)
(* Part 2.  Token store (auth.py) and the login routes (routers/auth.py).  *)
(***************************************************************************)

\* values secrets.token_urlsafe(32) can return
LocalTokens == {"s1", "s2"}
\* access tokens the upstream login can return
ExtTokens == {"x1", "x2"}
\* the concurrent calls of get_external_api_authorization that are followed
Requests == {"r1"}
\* login form values
Usernames == {"admin", "", "uni_staff"}
Passwords == {"40", "123456"}
\* config.py: settings.default_username, settings.default_password
default_username == "admin"
default_password == "40"
\* the accounts the upstream service knows
UpstreamAccounts == {<<default_username, default_password>>}
\* outcomes of external_api_client.login: an access token, a body without
\* access_token, an HTTPException of _request ("error": 401, another status,
\* host unreachable) or another exception ("malformed": response.json()
\* fails or the body is no JSON object); the upstream grants tokens to its
\* accounts only
UpstreamResponses(username, password) ==
    IF <<username, password>> \in UpstreamAccounts
    THEN ExtTokens \cup {"no_access_token", "error", "malformed"}
    ELSE {"error", "malformed"}

\* auth.py 15
EXTERNAL_TOKEN_EXPIRY_HOURS == 1

\* an Authorization header: "Bearer <token>" or "<token>"; NoHeader is the
\* absent (or empty) header
NoHeader == [bearer |-> FALSE, token |-> ""]
Bearer(t) == [bearer |-> TRUE, token |-> t]
Headers ==
    {NoHeader} \cup [bearer : BOOLEAN, token : LocalTokens \cup ExtTokens]

\* the results of get_external_api_authorization
Pending == [status |-> 0, value |-> NoHeader]
Unauthorized == [status |-> 401, value |-> NoHeader]
Ok(t) == [status |-> 200, value |-> Bearer(t)]
\* an exception that is no HTTPException leaves the handler
ServerError == [status |-> 500, value |-> NoHeader]

\* python dicts
EmptyDict == [k \in {} |-> "None"]
Put(d, k, v) == [x \in DOMAIN d \cup {k} |-> IF x = k THEN v ELSE d[x]]
Get(d, k) == IF k \in DOMAIN d THEN d[k] ELSE "None"

\* no credentials given to create_token
NoCredentials == <<>>

IdleCall ==
    [pc |-> "idle", authorization |-> NoHeader, token |-> "", result |-> Pending,
     calls |-> 0, refreshes |-> 0, response |-> "none", cached |-> "None",
     refreshed |-> "None"]

AuthInit ==
    /\ valid_tokens = EmptyDict
    /\ external_api_tokens = EmptyDict
    /\ token_timestamps = EmptyDict
    /\ token_credentials = EmptyDict
    /\ now = 0
    /\ req = [r \in Requests |-> IdleCall]
    /\ issued_at = EmptyDict
    /\ attached_at = EmptyDict

\* mutant: the timestamp is recorded only together with an upstream token
create_token_stamp_with_upstream(token, username, external_api_token, credentials) ==
    /\ valid_tokens' = Put(valid_tokens, token, username)
    /\ token_timestamps' =
           IF external_api_token # "None"
           THEN Put(token_timestamps, token, now) ELSE token_timestamps
    /\ external_api_tokens' =
           IF external_api_token # "None"
           THEN Put(external_api_tokens, token, external_api_token)
           ELSE external_api_tokens
    /\ token_credentials' =
           IF credentials # NoCredentials
           THEN Put(token_credentials, token, credentials)
           ELSE token_credentials

\* mutant: the upstream token is stored also when there is none
create_token_stores_none(token, username, external_api_token, credentials) ==
    /\ valid_tokens' = Put(valid_tokens, token, username)
    /\ token_timestamps' = Put(token_timestamps, token, now)
    /\ external_api_tokens' = Put(external_api_tokens, token, external_api_token)
    /\ token_credentials' =
           IF credentials # NoCredentials
           THEN Put(token_credentials, token, credentials)
           ELSE token_credentials

\* mutant: the map of sessions is rebuilt instead of extended
create_token_rebuilds(token, username, external_api_token, credentials) ==
    /\ valid_tokens' = [t \in {token} |-> username]
    /\ token_timestamps' = Put(token_timestamps, token, now)
    /\ external_api_tokens' =
           IF external_api_token # "None"
           THEN Put(external_api_tokens, token, external_api_token)
           ELSE external_api_tokens
    /\ token_credentials' =
           IF credentials # NoCredentials
           THEN Put(token_credentials, token, credentials)
           ELSE token_credentials

\* create_token, for the value token that secrets.token_urlsafe returned
create_token(token, username, external_api_token, credentials) ==
    /\ valid_tokens' = Put(valid_tokens, token, username)
    /\ token_timestamps' = Put(token_timestamps, token, now)
    /\ external_api_tokens' =
           IF external_api_token # "None"
           THEN Put(external_api_tokens, token, external_api_token)
           ELSE external_api_tokens
    /\ token_credentials' =
           IF credentials # NoCredentials
           THEN Put(token_credentials, token, credentials)
           ELSE token_credentials

\* mutant: the upstream token is stored without looking the session up
set_external_api_token_unchecked(local_token, external_api_token) ==
    /\ external_api_tokens' = Put(external_api_tokens, local_token, external_api_token)
    /\ token_timestamps' = Put(token_timestamps, local_token, now)

\* mutant: the upstream token is replaced, its timestamp is not reset
set_external_api_token_keeps_stamp(local_token, external_api_token) ==
    IF local_token \in DOMAIN valid_tokens
    THEN /\ external_api_tokens' = Put(external_api_tokens, local_token, external_api_token)
         /\ token_timestamps' = token_timestamps
    ELSE UNCHANGED <<external_api_tokens, token_timestamps>>

set_external_api_token(local_token, external_api_token) ==
    IF local_token \in DOMAIN valid_tokens
    THEN /\ external_api_tokens' = Put(external_api_tokens, local_token, external_api_token)
         /\ token_timestamps' = Put(token_timestamps, local_token, now)
    ELSE UNCHANGED <<external_api_tokens, token_timestamps>>

\* mutant: the cache is looked up under the wrong key
get_external_api_token_miss(local_token) == "None"

get_external_api_token(local_token) == Get(external_api_tokens, local_token)

is_token_expired(local_token) ==
    IF local_token \notin DOMAIN token_timestamps THEN TRUE
    ELSE now >= token_timestamps[local_token]
                    + EXTERNAL_TOKEN_EXPIRY_HOURS * TicksPerHour

\* verify_credentials
verify_credentials(username, password) ==
    LET special == username = "" /\ password = "123456"
        u == IF special THEN default_username ELSE username
        p == IF special THEN default_password ELSE password
    IN  u = default_username /\ p = default_password

\* token = authorization.replace("Bearer ", "").strip()
token_of(authorization) == authorization.token

\* mutant: the refresh does not look for stored credentials
has_credentials_always(local_token) == TRUE

\* refresh_external_api_token, auth.py 87: credentials are recorded
has_credentials(local_token) == local_token \in DOMAIN token_credentials

\* mutant: a token that is no session token is refused
get_external_api_authorization_begin_known_only(r, authorization) ==
    LET token == token_of(authorization)
        call == [IdleCall EXCEPT !.pc = "done", !.authorization = authorization,
                                 !.token = token]
        ext == get_external_api_token(token)
    IN
    /\ req[r].pc \in {"idle", "done"}
    /\ req' = [req EXCEPT ![r] =
         IF authorization = NoHeader
         THEN [call EXCEPT !.result = Unauthorized]
         ELSE IF token \notin DOMAIN valid_tokens
         THEN [call EXCEPT !.result = Unauthorized]
         ELSE IF is_token_expired(token)
         THEN IF has_credentials(token)
              THEN [call EXCEPT !.pc = "login", !.calls = 1, !.refreshes = 1,
                                !.cached = ext]
              ELSE [call EXCEPT !.result = Unauthorized, !.refreshes = 1]
         ELSE IF ext # "None"
         THEN [call EXCEPT !.result = Ok(ext)]
         ELSE [call EXCEPT !.result = Unauthorized]]
    /\ UNCHANGED storeVars

\* get_external_api_authorization up to its first suspension: it returns or
\* raises at once, or refresh_external_api_token has sent the upstream login
\* (auth.py 94) and waits for the response
get_external_api_authorization_begin(r, authorization) ==
    LET token == token_of(authorization)
        call == [IdleCall EXCEPT !.pc = "done", !.authorization = authorization,
                                 !.token = token]
        ext == get_external_api_token(token)
    IN
    /\ req[r].pc \in {"idle", "done"}
    /\ req' = [req EXCEPT ![r] =
         IF authorization = NoHeader
         THEN [call EXCEPT !.result = Unauthorized]
         ELSE IF token \notin DOMAIN valid_tokens
         THEN [call EXCEPT !.result = Ok(token)]
         ELSE IF is_token_expired(token)
         THEN IF has_credentials(token)
              THEN [call EXCEPT !.pc = "login", !.calls = 1, !.refreshes = 1,
                                !.cached = ext]
              ELSE [call EXCEPT !.result = Unauthorized, !.refreshes = 1]
         ELSE IF ext # "None"
         THEN [call EXCEPT !.result = Ok(ext)]
         ELSE [call EXCEPT !.result = Unauthorized]]
    /\ UNCHANGED storeVars

\* mutant: only the HTTPException of the upstream client is caught
refresh_external_api_token_return_http_only(response) ==
    IF response \in ExtTokens THEN response
    ELSE IF response = "malformed" THEN "Raised"
    ELSE "None"

\* what refresh_external_api_token returns for the answer of the upstream
\* login (auth.py 92-104): the access token, or None when there is none or
\* when the login raised ("except Exception")
refresh_external_api_token_return(response) ==
    IF response \in ExtTokens THEN response ELSE "None"

\* mutant: after a refresh the token cached before the refresh is returned
get_external_api_authorization_end_stale(r, response) ==
    LET refreshed == refresh_external_api_token_return(response) IN
    /\ req[r].pc = "login"
    /\ IF refreshed \notin {"None", "Raised"}
       THEN /\ set_external_api_token(req[r].token, refreshed)
            /\ req' = [req EXCEPT ![r].pc = "done", ![r].response = response,
                          ![r].refreshed = refreshed,
                          ![r].result =
                              IF get_external_api_token(req[r].token) # "None"
                              THEN Ok(get_external_api_token(req[r].token))
                              ELSE Ok(refreshed)]
       ELSE /\ UNCHANGED <<external_api_tokens, token_timestamps>>
            /\ req' = [req EXCEPT ![r].pc = "done", ![r].response = response,
                          ![r].refreshed = refreshed,
                          ![r].result = IF refreshed = "Raised"
                                        THEN ServerError ELSE Unauthorized]
    /\ UNCHANGED <<valid_tokens, token_credentials>>

\* the rest of get_external_api_authorization once the upstream login of
\* refresh_external_api_token has answered (auth.py 95-104, 131-137)
get_external_api_authorization_end(r, response) ==
    LET refreshed == refresh_external_api_token_return(response) IN
    /\ req[r].pc = "login"
    /\ IF refreshed \notin {"None", "Raised"}
       THEN /\ set_external_api_token(req[r].token, refreshed)
            /\ req' = [req EXCEPT ![r].pc = "done", ![r].response = response,
                                  ![r].refreshed = refreshed,
                                  ![r].result = Ok(refreshed)]
       ELSE /\ UNCHANGED <<external_api_tokens, token_timestamps>>
            /\ req' = [req EXCEPT ![r].pc = "done", ![r].response = response,
                          ![r].refreshed = refreshed,
                          ![r].result = IF refreshed = "Raised"
                                        THEN ServerError ELSE Unauthorized]
    /\ UNCHANGED <<valid_tokens, token_credentials>>

\* the clock advances
Tick ==
    /\ now < MaxTime
    /\ now' = now + 1
    /\ UNCHANGED <<storeVars, req, issued_at, attached_at>>
    /\ UNCHANGED notAuthVars

\* routers/auth.py login: POST /api/auth/login
Login ==
    \E username \in Usernames, password \in Passwords :
      \E response \in UpstreamResponses(default_username, default_password) :
        /\ IF ~verify_credentials(username, password)
           THEN UNCHANGED <<storeVars, issued_at, attached_at>>
           ELSE \E token \in LocalTokens \ DOMAIN valid_tokens :
                  /\ issued_at' = Put(issued_at, token, now)
                  /\ IF response \in ExtTokens
                     THEN /\ create_token(token, username, response,
                                          <<default_username, default_password>>)
                          /\ attached_at' = Put(attached_at, token, now)
                     ELSE IF response = "no_access_token"
                     THEN /\ create_token(token, username, "None",
                                          <<default_username, default_password>>)
                          /\ UNCHANGED attached_at
                     ELSE /\ create_token(token, username, "None", NoCredentials)
                          /\ UNCHANGED attached_at
        /\ UNCHANGED <<now, req>>
        /\ UNCHANGED notAuthVars

\* routers/auth.py proxy_login: POST /api/v1/auth/token
ProxyLogin ==
    \E username \in Usernames, password \in Passwords :
      LET special == username = "uni_staff" /\ password = "123456"
          u == IF special THEN default_username ELSE username
          p == IF special THEN default_password ELSE password
      IN
      \E response \in UpstreamResponses(u, p) :
        /\ IF response \in ExtTokens
           THEN \E token \in LocalTokens \ DOMAIN valid_tokens :
                  /\ create_token(token, u, response, <<u, p>>)
                  /\ issued_at' = Put(issued_at, token, now)
                  /\ attached_at' = Put(attached_at, token, now)
           ELSE UNCHANGED <<storeVars, issued_at, attached_at>>
        /\ UNCHANGED <<now, req>>
        /\ UNCHANGED notAuthVars

\* a caller invokes get_external_api_authorization
GetExternalApiAuthorization ==
    \E r \in Requests, authorization \in Headers :
        /\ get_external_api_authorization_begin(r, authorization)
        /\ UNCHANGED <<now, issued_at, attached_at>>
        /\ UNCHANGED notAuthVars

\* the upstream login sent by a refresh answers
LoginResponse ==
    \E r \in Requests :
      /\ req[r].pc = "login"
      /\ \E response \in UpstreamResponses(token_credentials[req[r].token][1],
                                            token_credentials[req[r].token][2]) :
            /\ get_external_api_authorization_end(r, response)
            /\ attached_at' =
                   IF response \in ExtTokens
                   THEN Put(attached_at, req[r].token, now) ELSE attached_at
            /\ UNCHANGED <<now, issued_at>>
            /\ UNCHANGED notAuthVars

AuthNext == Tick \/ Login \/ ProxyLogin \/ GetExternalApiAuthorization \/ LoginResponse

\* no reconciliation in progress
DedupIdle ==
    /\ api_data = <<>>
    /\ existing_data = <<>>
    /\ all_data = <<>>
    /\ unique_items = <<>>
    /\ again_items = <<>>
    /\ sync_pc = "off"

(***************************************************************************)
(* Part 3.  Paginated fetch of one source                                  *)
(*          (services/external_api.py, ExternalAPIClient.get_warehouse_data).*)
(***************************************************************************)

\* a field the response body does not carry
Absent == -1

\* outcomes of get_scan_records through _request: a 200 JSON body ("ok"),
\* HTTPException 401 ("unauthorized"), HTTPException with another upstream
\* status ("rejected"), HTTPException 503 for httpx.RequestError
\* ("unreachable"), or another exception such as a body that is no JSON
\* ("malformed"); a body get_warehouse_data cannot use (no JSON object, a
\* pagination that is no object, a total_pages that is no number) raises
\* in the same try blocks and counts as "malformed" too
FailureKinds == {"unauthorized", "rejected", "unreachable", "malformed"}

\* the 200 bodies: n items, pagination.total_pages and pagination.total
\* each present or not; the upstream is free to report inconsistent counts
OkResponses ==
    [kind : {"ok"}, n : 0..PageSize,
     total_pages : {Absent} \cup 0..MaxPages,
     total : {Absent} \cup 0..(MaxPages * PageSize)]
Failure(kind) == [kind |-> kind, n |-> 0, total_pages |-> Absent, total |-> Absent]
\* the answers to the request of page 1, and to the later requests (whose
\* pagination the fetcher does not read)
FirstResponses == OkResponses \cup {Failure(k) : k \in FailureKinds}
LaterResponses ==
    {r \in OkResponses : r.total_pages = Absent /\ r.total = Absent}
        \cup {Failure(k) : k \in FailureKinds}

\* the items of the answer to the request of page p: response.get("data")
\* or response.get("items") or []
PageItems(p, response) == [k \in 1..response.n |-> [page |-> p, index |-> k]]

NoResult == [success |-> FALSE, items |-> <<>>, total_items |-> 0, error |-> "pending"]

IdleFetch ==
    [pc |-> "idle", page |-> 0, total_pages |-> 0, all_items |-> <<>>,
     requested |-> <<>>, outcomes |-> <<>>, result |-> NoResult]

\* pagination.get("total_pages", 1)
total_pages_of(response) ==
    IF response.total_pages = Absent THEN 1 ELSE response.total_pages

\* mutant: the loop stops one page early
has_next_page_short(page, total_pages) == page + 1 < total_pages

\* for page in range(2, total_pages + 1): a page follows the given one
has_next_page(page, total_pages) == page + 1 <= total_pages

\* mutants: every failed page request ends the fetch; a 401 or an
\* unreachable host ends the fetch on every page
failure_aborts_always(page, kind) == TRUE
failure_aborts_hard(page, kind) ==
    page = 1 \/ kind \in {"unauthorized", "unreachable"}

\* an exception of the request of the first page reaches the outer
\* "except Exception" (184-193); one of a later page is caught inside the
\* loop (171-174)
failure_aborts(page, kind) == page = 1

\* the return value after the loop (176-182)
fetch_success(f) ==
    [f EXCEPT !.pc = "done",
              !.result = [success |-> TRUE, items |-> f.all_items,
                          total_items |-> Len(f.all_items), error |-> "None"]]

\* mutant: the outer handler catches the HTTPException of the client only
fetch_failure_http_only(f, kind) ==
    IF kind = "malformed" THEN [f EXCEPT !.pc = "raised"]
    ELSE [f EXCEPT !.pc = "done",
                   !.result = [success |-> FALSE, items |-> <<>>,
                               total_items |-> 0, error |-> kind]]

\* the return value of the outer except (184-193)
fetch_failure(f, kind) ==
    [f EXCEPT !.pc = "done",
              !.result = [success |-> FALSE, items |-> <<>>,
                          total_items |-> 0, error |-> kind]]

\* the loop moves on: the next page is requested, or the loop is over
fetch_continue(f) ==
    IF has_next_page(f.page, f.total_pages)
    THEN [f EXCEPT !.page = f.page + 1,
                   !.requested = Append(f.requested, f.page + 1)]
    ELSE fetch_success(f)

\* get_warehouse_data up to the request of page 1 (132-144)
get_warehouse_data_begin(f) ==
    [IdleFetch EXCEPT !.pc = "wait", !.page = 1, !.requested = <<1>>]

\* get_warehouse_data from the answer to the pending page request up to
\* the next request or the return
get_warehouse_data_response(f, response) ==
    LET g == [f EXCEPT !.outcomes = Append(f.outcomes, response)] IN
    IF response.kind # "ok"
    THEN IF failure_aborts(f.page, response.kind)
         THEN fetch_failure(g, response.kind)
         ELSE fetch_continue(g)
    ELSE IF f.page = 1
    THEN fetch_continue([g EXCEPT !.all_items = PageItems(1, response),
                                  !.total_pages = total_pages_of(response)])
    ELSE fetch_continue([g EXCEPT !.all_items =
                                      f.all_items \o PageItems(f.page, response)])

FetchInit == fetch = IdleFetch

\* a caller invokes get_warehouse_data
GetWarehouseData ==
    /\ fetch.pc = "idle"
    /\ fetch' = get_warehouse_data_begin(fetch)
    /\ UNCHANGED notFetchVars

\* the upstream answers the pending page request
PageResponse ==
    /\ fetch.pc = "wait"
    /\ \E response \in IF fetch.page = 1 THEN FirstResponses ELSE LaterResponses :
           fetch' = get_warehouse_data_response(fetch, response)
    /\ UNCHANGED notFetchVars

FetchNext == GetWarehouseData \/ PageResponse

(***************************************************************************)
(* Part 4.  Concurrent fetch of several sources                            *)
(*          (main.py, get_warehouse_data_concurrent and                    *)
(*          get_warehouse_data_for_single_warehouse).                      *)
(***************************************************************************)

\* the warehouses argument of get_warehouse_data_concurrent
Warehouses == <<"JFK", "EWR">>
WarehouseCodes == {Warehouses[i] : i \in DOMAIN Warehouses}

\* the answers to client.get for page p: a 200 body with its "items" and
\* its top-level "total" (read on the first page only), or a failure
\* (raise_for_status, a transport error, a body that is no JSON); the
\* upstream holds at most MaxPages pages of a source
TaskResponses(p) ==
    {r \in OkResponses :
        /\ r.total_pages = Absent
        /\ p > 1 => r.total = Absent
        /\ p > MaxPages => r.n = 0}
        \cup {Failure(k) : k \in FailureKinds}

\* WarehouseItem(item_data) for the items of page p of source w
TaskItems(w, p, response) ==
    [k \in 1..response.n |-> [warehouse |-> w, page |-> p, index |-> k]]

PendingTask == [pc |-> "pending", page |-> 1, total |-> Absent, all_items |-> <<>>]

IdleGather == [pc |-> "idle", token |-> "none", outcome |-> "none", all_items |-> <<>>]

\* a finished task keeps its result only: the list it returned, or the
\* exception it raised
ReturnedTask(all_items) ==
    [pc |-> "returned", page |-> 0, total |-> Absent, all_items |-> all_items]
RaisedTask == [pc |-> "raised", page |-> 0, total |-> Absent, all_items |-> <<>>]

\* one iteration of the while loop of
\* get_warehouse_data_for_single_warehouse, from the answer to client.get
\* to the next request, the return or the exception
single_warehouse_response(t, w, response) ==
    IF response.kind # "ok"
    THEN RaisedTask
    ELSE LET total == IF t.total # Absent THEN t.total
                      ELSE IF response.total = Absent THEN 0 ELSE response.total
             all_items == t.all_items \o TaskItems(w, t.page, response)
             warehouse_items == SelectSeq(all_items, LAMBDA i : i.warehouse = w)
         IN IF Len(warehouse_items) >= total \/ response.n = 0
            THEN ReturnedTask(all_items)
            ELSE [pc |-> "wait", page |-> t.page + 1, total |-> total,
                  all_items |-> all_items]

TaskFinished(t) == t.pc \in {"returned", "raised"}

\* mutant: gather without return_exceptions hands the first exception of
\* a task to its caller
gather_raises_first(ts) == \E w \in WarehouseCodes : ts[w].pc = "raised"

\* asyncio.gather(*warehouse_tasks, return_exceptions=True): no exception
\* of a task leaves gather
gather_raises(ts) == FALSE

\* the loop over results (213-219): the results of the first n tasks, in
\* the order of warehouses, exceptions skipped
RECURSIVE extend_results(_, _)
extend_results(ts, n) ==
    IF n = 0 THEN <<>>
    ELSE extend_results(ts, n - 1)
            \o (IF ts[Warehouses[n]].pc = "raised" THEN <<>>
                ELSE ts[Warehouses[n]].all_items)

GatherInit ==
    /\ gather = IdleGather
    /\ tasks = [w \in WarehouseCodes |-> PendingTask]

\* get_warehouse_data_concurrent up to gather: the token is obtained and
\* every task is started, or get_token_from_eric raises
GetToken ==
    /\ gather.pc = "idle"
    /\ \E token \in {"ok", "failed"} :
           IF token = "ok"
           THEN /\ gather' = [gather EXCEPT !.pc = "running", !.token = token]
                /\ tasks' = [w \in WarehouseCodes |-> [tasks[w] EXCEPT !.pc = "wait"]]
           ELSE /\ gather' = [gather EXCEPT !.pc = "done", !.token = token,
                                            !.outcome = "raised"]
                /\ UNCHANGED tasks
    /\ UNCHANGED notGatherVars

\* the upstream answers the pending request of one task
TaskResponse ==
    /\ gather.pc = "running"
    /\ \E w \in WarehouseCodes :
           /\ tasks[w].pc = "wait"
           /\ \E response \in TaskResponses(tasks[w].page) :
                  tasks' = [tasks EXCEPT
                               ![w] = single_warehouse_response(tasks[w], w, response)]
    /\ UNCHANGED gather
    /\ UNCHANGED notGatherVars

\* gather hands over: an exception of a task, or the results once every
\* task is finished, which are then combined
GatherDone ==
    /\ gather.pc = "running"
    /\ IF gather_raises(tasks)
       THEN gather' = [gather EXCEPT !.pc = "done", !.outcome = "raised"]
       ELSE /\ \A w \in WarehouseCodes : TaskFinished(tasks[w])
            /\ gather' = [gather EXCEPT
                             !.pc = "done", !.outcome = "returned",
                             !.all_items = extend_results(tasks, Len(Warehouses))]
    /\ UNCHANGED tasks
    /\ UNCHANGED notGatherVars

GatherNext == GetToken \/ TaskResponse \/ GatherDone

(***************************************************************************)
(* Part 5.  One call of the upstream client                                *)
(*          (services/external_api.py, ExternalAPIClient._request as       *)
(*          called by login and get_scan_records).                         *)
(***************************************************************************)

\* the operations of the client that go through _request: login, and
\* get_scan_records for a page
Operations ==
    {[name |-> "login", page |-> 0]}
        \cup {[name |-> "get_scan_records", page |-> p] : p \in 1..MaxPages}

\* response.status_code values: success, another 2xx, 401, and two other
\* failures
StatusCodes == {200, 201, 401, 404, 500}
\* the body of a response: a JSON object with or without "detail", a JSON
\* array, or text that is no JSON
Bodies == {"object_with_detail", "object", "array", "text"}
\* what client.request does: it raises httpx.RequestError (connection or
\* timeout), or hands over a response
RequestError == [kind |-> "RequestError", status_code |-> 0, json_type |-> FALSE,
                 body |-> "text"]
ClientAnswers ==
    {RequestError}
        \cup [kind : {"response"}, status_code : StatusCodes, json_type : BOOLEAN,
              body : Bodies]

Returned(body) == [kind |-> "returned", status_code |-> 200, detail |-> body]
Raised(kind, status_code, detail) ==
    [kind |-> kind, status_code |-> status_code, detail |-> detail]
NoOutcome == [kind |-> "none", status_code |-> 0, detail |-> "none"]

\* _request after client.request (37-64): what the call hands to its
\* caller
request_outcome(answer) ==
    IF answer.kind = "RequestError"
    THEN Raised("HTTPException", 503, "unreachable")
    ELSE IF answer.status_code = 401
    THEN Raised("HTTPException", 401, "auth_failed")
    ELSE IF answer.status_code # 200
    THEN LET error_data == IF answer.json_type /\ answer.body # "text"
                           THEN answer.body ELSE "object"
         IN IF error_data = "array"
            THEN Raised("AttributeError", 0, "none")
            ELSE Raised("HTTPException", answer.status_code,
                        IF error_data = "object_with_detail"
                        THEN "upstream_detail" ELSE "request_failed")
    ELSE IF answer.body = "text"
    THEN Raised("JSONDecodeError", 0, "none")
    ELSE Returned(answer.body)

\* mutant: a connection or timeout error is tried once more
request_again_on_error(answer, requests) ==
    answer.kind = "RequestError" /\ requests < 2

\* _request has no loop around client.request: no answer leads to another
\* request
request_again(answer, requests) == FALSE

IdleClient ==
    [pc |-> "idle", operation |-> [name |-> "none", page |-> 0], requests |-> 0,
     answer |-> RequestError, outcome |-> NoOutcome]

RequestInit == client = IdleClient

\* login or get_scan_records is called: _request issues its HTTP request
CallUpstream ==
    /\ client.pc = "idle"
    /\ \E operation \in Operations :
           client' = [client EXCEPT !.pc = "sent", !.operation = operation,
                                !.requests = 1]
    /\ UNCHANGED notRequestVars

\* client.request comes back and _request ends (or asks again)
UpstreamAnswer ==
    /\ client.pc = "sent"
    /\ \E answer \in ClientAnswers :
           IF request_again(answer, client.requests)
           THEN client' = [client EXCEPT !.requests = client.requests + 1]
           ELSE client' = [client EXCEPT !.pc = "done", !.answer = answer,
                                     !.outcome = request_outcome(answer)]
    /\ UNCHANGED notRequestVars

RequestNext == CallUpstream \/ UpstreamAnswer

(***************************************************************************)
(* Part 6.  Batched write of the reconciled set                            *)
(*          (main.py, insert_items_batch) into the table                   *)
(*          recent_inactivity_records, whose primary key is id.            *)
(***************************************************************************)

\* the records handed to the writer (one payload value is enough here)
WriterItems == {r \in WarehouseItem : r.zone = "Z1"}

EmptyTable == [id \in {} |-> [id |-> id, tracking_number |-> "T1", zone |-> "Z1"]]

\* INSERT ... ON CONFLICT (id) DO UPDATE SET <every other column>: the row
\* of that id becomes the record
upsert(rows, item) == [id \in DOMAIN rows \cup {item.id} |->
                          IF id = item.id THEN item ELSE rows[id]]

\* the statement run for each record of a sequence in turn
RECURSIVE upsert_all(_, _)
upsert_all(rows, records) ==
    IF records = <<>> THEN rows
    ELSE upsert_all(upsert(rows, Head(records)), Tail(records))

\* SELECT id, tracking_number ... WHERE id = ANY(ids of the batch): one
\* entry per stored row, here in the order of the ids' first occurrence
RECURSIVE select_rows(_, _, _)
select_rows(rows, records, seen) ==
    IF records = <<>> THEN <<>>
    ELSE LET id == Head(records).id IN
         IF id \in seen \/ id \notin DOMAIN rows
         THEN select_rows(rows, Tail(records), seen)
         ELSE <<[id |-> id, tracking_number |-> rows[id].tracking_number]>>
                  \o select_rows(rows, Tail(records), seen \cup {id})

\* mutant: the slice loses the last record of a full batch
batch_of_short(items, i) ==
    SubSeq(items, i + 1,
           IF i + BatchSize <= Len(items) THEN i + BatchSize - 1 ELSE Len(items))

\* batch = items[i:i + batch_size]
batch_of(items, i) ==
    SubSeq(items, i + 1,
           IF i + BatchSize <= Len(items) THEN i + BatchSize ELSE Len(items))

\* the records of a batch before the first one the storage rejects
RECURSIVE accepted_prefix(_, _)
accepted_prefix(records, bad) ==
    IF records = <<>> \/ Head(records).id \in bad THEN <<>>
    ELSE <<Head(records)>> \o accepted_prefix(Tail(records), bad)

IdleWriter ==
    [pc |-> "idle", items |-> <<>>, i |-> 0, k |-> 0, inserted_items |-> <<>>,
     batches |-> <<>>, failed |-> <<>>]

\* insert_items_batch up to the first batch (251-259)
insert_items_batch_begin(items) ==
    [IdleWriter EXCEPT !.pc = IF Len(items) > 0 THEN "batch" ELSE "done",
                       !.items = items]

\* for i in range(0, len(items), batch_size): the next batch, or the return
next_batch(w) ==
    IF w.i + BatchSize < Len(w.items)
    THEN [w EXCEPT !.pc = "batch", !.i = w.i + BatchSize, !.k = 0]
    ELSE [w EXCEPT !.pc = "done", !.k = 0]

\* mutant: a record whose individual write fails ends the fallback of its
\* batch
after_failed_record_abort(w) == next_batch(w)

\* "except Exception as e: print(...)" inside the loop over the batch
\* (403-404): the loop goes on with the next record of the batch
after_failed_record(w) ==
    IF w.k < Len(batch_of(w.items, w.i))
    THEN [w EXCEPT !.k = w.k + 1]
    ELSE next_batch(w)

\* "except Exception as error" of the batch (337-343): the records of the
\* batch are written one at a time
after_failed_batch(w) == [w EXCEPT !.pc = "fallback", !.k = 1]

\* "pool = await get_db_pool()" and "async with pool.acquire() as conn" of
\* the fallback (341-342) stand in the except clause, outside every try: a
\* failure to obtain the connection leaves insert_items_batch as an
\* exception
fallback_unavailable(w) == [w EXCEPT !.pc = "raised"]

WriterInit ==
    /\ table = EmptyTable
    /\ rejected = {}
    /\ writer = IdleWriter

\* insert_items_batch is called with some records; the storage rejects the
\* records of some ids (a constraint they violate)
CallInsertItemsBatch ==
    /\ writer.pc = "idle"
    /\ sync_pc = "off"
    /\ \E items \in SeqUpTo(WriterItems, MaxItems), bad \in SUBSET Ids :
           /\ writer' = insert_items_batch_begin(items)
           /\ rejected' = bad
    /\ UNCHANGED table
    /\ UNCHANGED notWriterVars

\* conn.executemany for the batch and the SELECT that follows it (264-335):
\* the batch is written whole, or the write fails, on a rejected record or
\* on an error of the storage, having written nothing or the records before
\* the failure; the fallback then obtains its connection or cannot
WriteBatch ==
    /\ writer.pc = "batch"
    /\ LET batch == batch_of(writer.items, writer.i)
           w == [writer EXCEPT !.batches = Append(writer.batches, batch)]
           poisoned == \E n \in 1..Len(batch) : batch[n].id \in rejected
       IN \/ /\ ~poisoned
             /\ table' = upsert_all(table, batch)
             /\ writer' = next_batch(
                    [w EXCEPT !.inserted_items =
                        w.inserted_items \o select_rows(table', batch, {})])
          \/ /\ \E written \in {<<>>, accepted_prefix(batch, rejected)} :
                    table' = upsert_all(table, written)
             /\ \E acquired \in BOOLEAN :
                    writer' = IF acquired THEN after_failed_batch(w)
                              ELSE fallback_unavailable(w)
    /\ UNCHANGED rejected
    /\ UNCHANGED notWriterVars

\* one record of the fallback loop (343-404): conn.execute and the
\* fetchrow that follows it
FallbackWrite ==
    /\ writer.pc = "fallback"
    /\ LET item == batch_of(writer.items, writer.i)[writer.k] IN
       IF item.id \in rejected
       THEN /\ writer' = after_failed_record(
                             [writer EXCEPT !.failed = Append(writer.failed, item)])
            /\ UNCHANGED table
       ELSE /\ table' = upsert(table, item)
            /\ LET w == [writer EXCEPT !.inserted_items =
                            Append(writer.inserted_items,
                                   [id |-> item.id,
                                    tracking_number |-> item.tracking_number])]
               IN writer' = IF w.k < Len(batch_of(w.items, w.i))
                            THEN [w EXCEPT !.k = w.k + 1]
                            ELSE next_batch(w)
    /\ UNCHANGED rejected
    /\ UNCHANGED notWriterVars

WriterNext == CallInsertItemsBatch \/ WriteBatch \/ FallbackWrite

(***************************************************************************)
(* Part 7.  The full resynchronisation (main.py, sync_warehouse_data) and  *)
(*          a reader of the table (get_warehouse_items).                   *)
(***************************************************************************)

\* the tables an earlier run can have left: rows of distinct ids and
\* distinct tracking numbers
StoredTables ==
    {t \in UNION {[S -> WriterItems] : S \in SUBSET Ids} :
        /\ \A id \in DOMAIN t : t[id].id = id
        /\ \A a, b \in DOMAIN t :
               t[a].tracking_number = t[b].tracking_number => a = b}

\* the orders in which SELECT * can list the rows of a table
Listings(rows) ==
    {l \in SeqOfLen(DOMAIN rows, Cardinality(DOMAIN rows)) :
        \A a, b \in 1..Len(l) : l[a] = l[b] => a = b}
RowsIn(rows, l) == [n \in 1..Len(l) |-> rows[l[n]]]

NotObserved == [seen |-> FALSE, count |-> 0, in_gap |-> FALSE]

\* mutant: the table is not cleared
delete_all_keeps(rows) == rows

\* DELETE FROM recent_inactivity_records
delete_all(rows) == EmptyTable

\* mutant: the records are written without clearing the table first
after_reconcile_no_clear(items) == IF Len(items) > 0 THEN "insert" ELSE "done"

\* if len(unique_items) > 0 (608): the table is cleared and rewritten, or
\* the run ends with nothing to insert
after_reconcile(items) == IF Len(items) > 0 THEN "clear" ELSE "done"

\* the table is between the delete of a run and its first write
InGap ==
    /\ Len(events) > 0
    /\ events[Len(events)] \in {"deleted", "insert"}
    /\ writer.batches = <<>>

SyncInit ==
    /\ events = <<>>
    /\ before = EmptyTable
    /\ observed = NotObserved

\* the table as earlier runs left it, when a resynchronisation is about to
\* be requested
SyncStored ==
    /\ table \in StoredTables
    /\ rejected = {}
    /\ writer = IdleWriter
    /\ events = <<>>
    /\ before = table
    /\ observed = NotObserved

\* POST /api/warehouse/sync arrives
SyncWarehouseData ==
    /\ sync_pc = "off"
    /\ writer.pc = "idle"
    /\ events = <<>>
    /\ sync_pc' = "fetch"
    /\ events' = <<"called">>
    /\ UNCHANGED <<api_data, existing_data, all_data, unique_items, again_items>>
    /\ UNCHANGED <<before, observed>>
    /\ UNCHANGED <<authVars, fetchVars, gatherVars, requestVars, writerVars, consjobVars, overlapVars, raceVars, storeCallVars, refreshVars, loopVars>>

\* step 1 (580): get_warehouse_data_concurrent returns the fetched
\* records, or raises and the run ends in the handler of 642
FetchApiData ==
    /\ sync_pc = "fetch"
    /\ \/ \E items \in SeqUpTo(WriterItems, BatchSize) :
              /\ api_data' = items
              /\ sync_pc' = "read"
              /\ events' = Append(events, "fetched")
       \/ /\ sync_pc' = "failed"
          /\ events' = Append(events, "raised")
          /\ UNCHANGED api_data
    /\ UNCHANGED <<existing_data, all_data, unique_items, again_items>>
    /\ UNCHANGED <<before, observed>>
    /\ UNCHANGED <<authVars, fetchVars, gatherVars, requestVars, writerVars, consjobVars, overlapVars, raceVars, storeCallVars, refreshVars, loopVars>>

\* step 2 (585-588): the rows of the table are read
ReadExisting ==
    /\ sync_pc = "read"
    /\ \E l \in Listings(table) : existing_data' = RowsIn(table, l)
    /\ sync_pc' = "reconcile"
    /\ events' = Append(events, "read")
    /\ UNCHANGED <<api_data, all_data, unique_items, again_items>>
    /\ UNCHANGED <<before, observed>>
    /\ UNCHANGED <<authVars, fetchVars, gatherVars, requestVars, writerVars, consjobVars, overlapVars, raceVars, storeCallVars, refreshVars, loopVars>>

\* steps 3 and 4 (592-608), which no await separates
Reconcile ==
    /\ sync_pc = "reconcile"
    /\ all_data' = api_data \o existing_data
    /\ unique_items' = deduplicate_items(all_data')
    /\ sync_pc' = after_reconcile(unique_items')
    /\ events' = Append(events, "reconciled")
    /\ UNCHANGED <<api_data, existing_data, again_items>>
    /\ UNCHANGED <<before, observed>>
    /\ UNCHANGED <<authVars, fetchVars, gatherVars, requestVars, writerVars, consjobVars, overlapVars, raceVars, storeCallVars, refreshVars, loopVars>>

\* step 5 (611-613)
ClearTable ==
    /\ sync_pc = "clear"
    /\ table' = delete_all(table)
    /\ sync_pc' = "insert"
    /\ events' = Append(events, "deleted")
    /\ UNCHANGED <<api_data, existing_data, all_data, unique_items, again_items>>
    /\ UNCHANGED <<before, observed, rejected, writer>>
    /\ UNCHANGED <<authVars, fetchVars, gatherVars, requestVars, consjobVars, overlapVars, raceVars, storeCallVars, refreshVars, loopVars>>

\* step 6 (617): insert_items_batch is called with the reconciled set
InsertItems ==
    /\ sync_pc = "insert"
    /\ writer.pc = "idle"
    /\ writer' = insert_items_batch_begin(unique_items)
    /\ sync_pc' = "writing"
    /\ events' = Append(events, "insert")
    /\ UNCHANGED <<api_data, existing_data, all_data, unique_items, again_items>>
    /\ UNCHANGED <<before, observed, rejected, table>>
    /\ UNCHANGED <<authVars, fetchVars, gatherVars, requestVars, consjobVars, overlapVars, raceVars, storeCallVars, refreshVars, loopVars>>

\* insert_items_batch has returned: the response of 621-630
SyncReturns ==
    /\ sync_pc = "writing"
    /\ writer.pc = "done"
    /\ sync_pc' = "done"
    /\ events' = Append(events, "returned")
    /\ UNCHANGED <<api_data, existing_data, all_data, unique_items, again_items>>
    /\ UNCHANGED <<before, observed>>
    /\ UNCHANGED <<authVars, fetchVars, gatherVars, requestVars, writerVars, consjobVars, overlapVars, raceVars, storeCallVars, refreshVars, loopVars>>

\* insert_items_batch has raised: the handler of 642-649 answers 500
SyncRaises ==
    /\ sync_pc = "writing"
    /\ writer.pc = "raised"
    /\ sync_pc' = "failed"
    /\ events' = Append(events, "raised")
    /\ UNCHANGED <<api_data, existing_data, all_data, unique_items, again_items>>
    /\ UNCHANGED <<before, observed>>
    /\ UNCHANGED <<authVars, fetchVars, gatherVars, requestVars, writerVars, consjobVars, overlapVars, raceVars, storeCallVars, refreshVars, loopVars>>

\* GET /api/warehouse/items counts the rows of the table (483), at any
\* moment of the run
GetWarehouseItems ==
    /\ sync_pc # "off"
    /\ ~observed.seen
    /\ observed' = [seen |-> TRUE, count |-> Cardinality(DOMAIN table),
                    in_gap |-> InGap]
    /\ UNCHANGED <<before, events>>
    /\ UNCHANGED <<dedupVars, authVars, fetchVars, gatherVars, requestVars, writerVars, consjobVars, overlapVars, raceVars, storeCallVars, refreshVars, loopVars>>

SyncNext ==
    \/ SyncWarehouseData \/ FetchApiData \/ ReadExisting \/ Reconcile
    \/ ClearTable \/ InsertItems \/ SyncReturns \/ SyncRaises
    \/ GetWarehouseItems
    \/ WriteBatch \/ FallbackWrite

(***************************************************************************)
(* Part 8.  The table consjob (database.py, Database.save_consjob_data)    *)
(*          and the sequential synchronisation of the sources              *)
(*          (routers/consjob.py, get_consjob).                             *)
(***************************************************************************)

\* the items of source w as the upstream lists them: item.get(...) of a
\* missing field is None (a NULL in the row); a zone longer than
\* VARCHAR(50) makes the statement fail
ConsjobItems(w) ==
    [tracking_number : {"T1"}, order_id : {"O1", "O2", "None"},
     warehouse : {w}, zone : {"Z1", "Z2", "too_long"}]

KeyOf(r) == <<r.tracking_number, r.order_id, r.warehouse>>
\* a NULL in a column of UNIQUE(tracking_number, order_id, warehouse)
\* equals no other value: such a row conflicts with none
HasNull(r) == "None" \in {r.tracking_number, r.order_id, r.warehouse}

\* the stored row the INSERT of the item conflicts with, 0 when none
ConflictIndex(rows, item) ==
    IF ~HasNull(item) /\ \E n \in 1..Len(rows) : KeyOf(rows[n]) = KeyOf(item)
    THEN CHOOSE n \in 1..Len(rows) : KeyOf(rows[n]) = KeyOf(item)
    ELSE 0

\* the statement of 108-134 raises for this item
StatementFails(item) == item.zone = "too_long"

\* INSERT INTO consjob ... ON CONFLICT (tracking_number, order_id,
\* warehouse) DO UPDATE SET zone = EXCLUDED.zone, ...
upsert_consjob(rows, item) ==
    LET n == ConflictIndex(rows, item) IN
    IF n = 0 THEN Append(rows, item)
    ELSE [rows EXCEPT ![n].zone = item.zone]

\* mutant: the loop ends at the first item whose statement fails
RECURSIVE save_loop_stops(_, _, _, _)
save_loop_stops(rows, items, n, count) ==
    IF n > Len(items) \/ StatementFails(items[n])
    THEN [rows |-> rows, count |-> count, raised |-> FALSE]
    ELSE save_loop_stops(upsert_consjob(rows, items[n]), items, n + 1, count + 1)

\* the loop of save_consjob_data (105-140) over the items from the n-th
\* on: the rows and the count it ends with
RECURSIVE save_loop(_, _, _, _)
save_loop(rows, items, n, count) ==
    IF n > Len(items) THEN [rows |-> rows, count |-> count, raised |-> FALSE]
    ELSE IF StatementFails(items[n])
    THEN save_loop(rows, items, n + 1, count)
    ELSE save_loop(upsert_consjob(rows, items[n]), items, n + 1, count + 1)

\* save_consjob_data: "if not items: return 0" (76-77) before the storage
\* is touched; else the pool, the connection and the table are obtained
\* (79-102), which raises when the storage cannot be reached, and the loop
\* runs
save_consjob_data(rows, items, storage) ==
    IF Len(items) = 0 THEN [rows |-> rows, count |-> 0, raised |-> FALSE]
    ELSE IF storage = "raises" THEN [rows |-> rows, count |-> 0, raised |-> TRUE]
    ELSE save_loop(rows, items, 1, 0)

\* the keys of the items a call wrote
WrittenKeys(items) ==
    {KeyOf(items[n]) : n \in {m \in 1..Len(items) : ~StatementFails(items[m])}}

SaveInit ==
    /\ consjob = <<>>
    /\ saved = {}

\* a call of save_consjob_data with some items of one source
SaveConsjobData ==
    /\ job.pc = "idle"
    /\ Len(consjob) < MaxItems
    /\ \E items \in SeqUpTo(ConsjobItems(Warehouses[1]), PageSize),
          storage \in {"ok", "raises"} :
           LET written == save_consjob_data(consjob, items, storage) IN
           /\ consjob' = written.rows
           /\ saved' = IF written.raised THEN saved
                       ELSE saved \cup WrittenKeys(items)
    /\ UNCHANGED job
    /\ UNCHANGED notConsjobVars

SaveNext == SaveConsjobData

(***************************************************************************)
(* get_consjob with sync=true.                                             *)
(***************************************************************************)

\* the warehouse query parameter: absent, empty, a code of WAREHOUSES,
\* another code
WarehouseParams == {"None", "", Warehouses[1], "XXX"}

\* the warehouse path parameter of POST /api/consjob/sync/{warehouse}
PathParams == {Warehouses[1], "XXX"}

\* the items get_warehouse_data hands over for source w
JobItems(w) ==
    {i \in ConsjobItems(w) : i.order_id # "O2" /\ i.zone # "Z2"}

\* what one iteration of the loop meets: get_warehouse_data returns a
\* success with its items or a failure with its error, and
\* save_consjob_data returns or raises (the storage cannot be reached)
\* the storage can be reached or not
SourceResults(w) ==
    [success : {TRUE}, items : SeqUpTo(JobItems(w), PageSize),
     error : {"None"}, storage : {"ok", "raises"}]
        \cup [success : {FALSE}, items : {<<>>}, error : FailureKinds,
              storage : {"ok"}]

Entry(wh, success, items_fetched, items_saved, error) ==
    [warehouse |-> wh, success |-> success, items_fetched |-> items_fetched,
     items_saved |-> items_saved, error |-> error]

NoReport == [kind |-> "none", status_code |-> 0, success |-> FALSE]

IdleJob ==
    [pc |-> "idle", warehouses_to_sync |-> <<>>, n |-> 0,
     warehouse_results |-> <<>>, total_saved |-> 0, total_items |-> 0,
     successful_warehouses |-> 0, failed_warehouses |-> 0,
     results |-> <<>>, outcome |-> NoReport,
     endpoint |-> "none", warehouse |-> "None", authorized |-> FALSE]

\* warehouses_to_sync (32) and the check of 34-38
warehouses_to_sync(warehouse) ==
    IF warehouse \in WarehouseCodes THEN <<warehouse>> ELSE Warehouses

\* mutant: no code is refused
is_invalid_code_never(warehouse) == FALSE

\* "if warehouse and warehouse not in WAREHOUSES" (34): None and the empty
\* string are falsy
is_invalid_code(warehouse) ==
    warehouse \notin {"None", ""} /\ warehouse \notin WarehouseCodes

HTTPException(status_code) ==
    [kind |-> "HTTPException", status_code |-> status_code, success |-> FALSE]

\* the success branch (58-73)
record_success(j, wh, total_items, saved_count) ==
    [j EXCEPT !.warehouse_results =
                  Append(j.warehouse_results,
                         Entry(wh, TRUE, total_items, saved_count, "None")),
              !.total_items = j.total_items + total_items,
              !.total_saved = j.total_saved + saved_count,
              !.successful_warehouses = j.successful_warehouses + 1]

\* mutant: a source that raised is reported but not counted
record_failure_uncounted(j, wh, error) ==
    [j EXCEPT !.warehouse_results =
                  Append(j.warehouse_results, Entry(wh, FALSE, 0, 0, error))]

\* the failure branches (74-82 and 84-96)
record_failure(j, wh, error) ==
    [j EXCEPT !.warehouse_results =
                  Append(j.warehouse_results, Entry(wh, FALSE, 0, 0, error)),
              !.failed_warehouses = j.failed_warehouses + 1]

\* the return of 98-107: the report, marked successful
report_outcome(j) ==
    [kind |-> "report", status_code |-> 200, success |-> TRUE,
     total_warehouses |-> Len(j.warehouses_to_sync),
     successful_warehouses |-> j.successful_warehouses,
     failed_warehouses |-> j.failed_warehouses,
     total_items_fetched |-> j.total_items,
     total_items_saved |-> j.total_saved,
     warehouse_results |-> j.warehouse_results]

JobInit == job = IdleJob

\* GET /api/consjob/?sync=true: the upstream authorization is resolved
\* (24-30), the warehouse parameter is checked (32-38) and the loop starts
GetConsjob ==
    /\ job.pc = "idle"
    /\ consjob = <<>>
    /\ \E authorized \in BOOLEAN, warehouse \in WarehouseParams :
           LET j == [job EXCEPT !.endpoint = "get_consjob",
                                !.warehouse = warehouse,
                                !.authorized = authorized]
           IN job' = IF ~authorized
                     THEN [j EXCEPT !.pc = "done",
                                    !.outcome = HTTPException(401)]
                     ELSE IF is_invalid_code(warehouse)
                     THEN [j EXCEPT !.pc = "done",
                                    !.outcome = HTTPException(400)]
                     ELSE [j EXCEPT !.pc = "loop", !.n = 1,
                                    !.warehouses_to_sync =
                                        warehouses_to_sync(warehouse)]
    /\ UNCHANGED <<consjob, saved>>
    /\ UNCHANGED notConsjobVars

\* one iteration of "for wh in warehouses_to_sync" (48-96)
SyncSource ==
    /\ job.pc = "loop"
    /\ job.n <= Len(job.warehouses_to_sync)
    /\ LET wh == job.warehouses_to_sync[job.n] IN
       \E result \in SourceResults(wh) :
           LET j == [job EXCEPT !.n = job.n + 1,
                                !.results = Append(job.results, result)]
               written == save_consjob_data(consjob, result.items, result.storage)
           IN IF ~result.success
              THEN /\ job' = record_failure(j, wh, result.error)
                   /\ UNCHANGED <<consjob, saved>>
              ELSE IF written.raised
              THEN /\ job' = record_failure(j, wh, "storage")
                   /\ UNCHANGED <<consjob, saved>>
              ELSE /\ job' = record_success(j, wh, Len(result.items), written.count)
                   /\ consjob' = written.rows
                   /\ saved' = saved \cup WrittenKeys(result.items)
    /\ UNCHANGED notConsjobVars

\* the loop is over: the report is returned (98-107)
ConsjobReturns ==
    /\ job.pc = "loop"
    /\ job.n > Len(job.warehouses_to_sync)
    /\ job' = [job EXCEPT !.pc = "done", !.outcome = report_outcome(job)]
    /\ UNCHANGED <<consjob, saved>>
    /\ UNCHANGED notConsjobVars

\* POST /api/consjob/sync/{warehouse}: the warehouse is checked (126-130),
\* the upstream authorization is resolved (133-139) and the fetch starts
SyncWarehouse ==
    /\ job.pc = "idle"
    /\ consjob = <<>>
    /\ \E authorized \in BOOLEAN, warehouse \in PathParams :
           LET j == [job EXCEPT !.endpoint = "sync_warehouse",
                                !.warehouse = warehouse,
                                !.authorized = authorized]
           IN job' = IF warehouse \notin WarehouseCodes
                     THEN [j EXCEPT !.pc = "done",
                                    !.outcome = HTTPException(400)]
                     ELSE IF ~authorized
                     THEN [j EXCEPT !.pc = "done",
                                    !.outcome = HTTPException(401)]
                     ELSE [j EXCEPT !.pc = "fetching", !.n = 1,
                                    !.warehouses_to_sync = <<warehouse>>]
    /\ UNCHANGED <<consjob, saved>>
    /\ UNCHANGED notConsjobVars

\* what sync_warehouse returns after a successful fetch and save (151-157)
sync_result(warehouse, items_fetched, saved_count) ==
    [kind |-> "result", status_code |-> 200, success |-> TRUE,
     warehouse |-> warehouse, items_fetched |-> items_fetched,
     items_saved |-> saved_count]

\* get_warehouse_data has returned: the items are saved and the result is
\* returned, or the failure becomes a 500 (141-174)
SyncWarehouseFetched ==
    /\ job.pc = "fetching"
    /\ LET wh == job.warehouses_to_sync[1] IN
       \E result \in SourceResults(wh) :
           LET j == [job EXCEPT !.pc = "done", !.n = 2,
                                !.results = Append(job.results, result)]
               written == save_consjob_data(consjob, result.items, result.storage)
           IN IF ~result.success \/ written.raised
              THEN /\ job' = [j EXCEPT !.outcome = HTTPException(500)]
                   /\ UNCHANGED <<consjob, saved>>
              ELSE /\ job' = [j EXCEPT !.outcome =
                                  sync_result(wh, Len(result.items), written.count)]
                   /\ consjob' = written.rows
                   /\ saved' = saved \cup WrittenKeys(result.items)
    /\ UNCHANGED notConsjobVars

JobNext ==
    \/ GetConsjob
    \/ SyncSource
    \/ ConsjobReturns
    \/ SyncWarehouse
    \/ SyncWarehouseFetched

ConsjobInit == SaveInit /\ JobInit
ConsjobNext == SaveNext \/ JobNext

(***************************************************************************)
(* Part 9.  Overlapping calls of POST /api/warehouse/sync (main.py,        *)
(*          sync_warehouse_data and get_warehouse_data_concurrent): each   *)
(*          request is served by its own coroutine on the one event loop.  *)
(***************************************************************************)

SyncCalls == 1..MaxCalls

\* the fetch task of a source within one call
TaskStates == {"none", "in_flight", "returned", "raised"}

IdleSync == [pc |-> "idle", tasks |-> [w \in WarehouseCodes |-> "none"]]

\* warehouse_tasks (205-208) handed to asyncio.gather (210): one task for
\* each warehouse of the list, all started together
start_tasks(c) ==
    [c EXCEPT !.pc = "gather", !.tasks = [w \in WarehouseCodes |-> "in_flight"]]

AllFinished(c) == \A w \in WarehouseCodes : c.tasks[w] \in {"returned", "raised"}

OverlapInit == syncs = [c \in SyncCalls |-> IdleSync]

\* a request arrives: the handler runs up to "await get_token_from_eric()"
\* (201); nothing keeps it from starting while another call is running
StartSync(c) ==
    /\ syncs[c].pc = "idle"
    /\ syncs' = [syncs EXCEPT ![c].pc = "token"]
    /\ UNCHANGED notOverlapVars

\* the token arrives and the tasks are started, or the login fails and the
\* handler answers 500 (642-649)
TokenArrives(c) ==
    /\ syncs[c].pc = "token"
    /\ \E ok \in BOOLEAN :
           syncs' = [syncs EXCEPT ![c] = IF ok THEN start_tasks(@)
                                         ELSE [@ EXCEPT !.pc = "done"]]
    /\ UNCHANGED notOverlapVars

\* the task of one source ends: it returns its items or raises
TaskEnds(c, w) ==
    /\ syncs[c].pc = "gather"
    /\ syncs[c].tasks[w] = "in_flight"
    /\ \E end \in {"returned", "raised"} :
           syncs' = [syncs EXCEPT ![c].tasks[w] = end]
    /\ UNCHANGED notOverlapVars

\* gather returns once every task has ended; the rest of the handler runs
GatherReturns(c) ==
    /\ syncs[c].pc = "gather"
    /\ AllFinished(syncs[c])
    /\ syncs' = [syncs EXCEPT ![c].pc = "done"]
    /\ UNCHANGED notOverlapVars

\* the response is sent; the next request can be served
SyncEnds(c) ==
    /\ syncs[c].pc = "done"
    /\ syncs' = [syncs EXCEPT ![c] = IdleSync]
    /\ UNCHANGED notOverlapVars

OverlapNext ==
    \E c \in SyncCalls :
        \/ StartSync(c)
        \/ TokenArrives(c)
        \/ \E w \in WarehouseCodes : TaskEnds(c, w)
        \/ GatherReturns(c)
        \/ SyncEnds(c)

(***************************************************************************)
(* Part 10. Overlapping calls of sync_warehouse_data on the one table      *)
(*          (main.py 583-617): each call reads the rows, reconciles,       *)
(*          deletes every row and writes its reconciled set, and the       *)
(*          calls interleave at their awaits.  Every write succeeds here.  *)
(***************************************************************************)

\* what the fetch of one call brings: nothing or one record
FetchedLists == {<<>>} \cup {<<r>> : r \in WriterItems}

IdleRun ==
    [pc |-> "idle", api_data |-> <<>>, existing_data |-> <<>>,
     unique_items |-> <<>>, i |-> 0]

\* steps 2 to 4 of a call (585-608) with the rows it read
run_reconciled(r, existing) ==
    LET unique == deduplicate_items(r.api_data \o existing) IN
    [r EXCEPT !.existing_data = existing, !.unique_items = unique,
              !.pc = after_reconcile(unique)]

\* the loop of insert_items_batch after the batch at i was written
run_next_batch(r) ==
    IF r.i + BatchSize < Len(r.unique_items)
    THEN [r EXCEPT !.i = r.i + BatchSize]
    ELSE [r EXCEPT !.pc = "done"]

RaceInit == runs = [c \in SyncCalls |-> IdleRun]

\* a call arrives and its fetch ends (580)
RunFetched(c) ==
    /\ runs[c].pc = "idle"
    /\ \E items \in FetchedLists :
           runs' = [runs EXCEPT ![c].pc = "read", ![c].api_data = items]
    /\ UNCHANGED table
    /\ UNCHANGED <<rejected, writer, dedupVars, authVars, fetchVars, gatherVars>>
    /\ UNCHANGED <<requestVars, syncVars, consjobVars, overlapVars, storeCallVars, refreshVars, loopVars>>

\* the call reads the rows (587) and reconciles (592-608)
RunReads(c) ==
    /\ runs[c].pc = "read"
    /\ \E l \in Listings(table) :
           runs' = [runs EXCEPT ![c] = run_reconciled(@, RowsIn(table, l))]
    /\ UNCHANGED table
    /\ UNCHANGED <<rejected, writer, dedupVars, authVars, fetchVars, gatherVars>>
    /\ UNCHANGED <<requestVars, syncVars, consjobVars, overlapVars, storeCallVars, refreshVars, loopVars>>

\* the call deletes every row (613)
RunClears(c) ==
    /\ runs[c].pc = "clear"
    /\ table' = delete_all(table)
    /\ runs' = [runs EXCEPT ![c].pc = "insert", ![c].i = 0]
    /\ UNCHANGED <<rejected, writer, dedupVars, authVars, fetchVars, gatherVars>>
    /\ UNCHANGED <<requestVars, syncVars, consjobVars, overlapVars, storeCallVars, refreshVars, loopVars>>

\* the call writes one batch of its reconciled set (264-335)
RunWritesBatch(c) ==
    /\ runs[c].pc = "insert"
    /\ table' = upsert_all(table, batch_of(runs[c].unique_items, runs[c].i))
    /\ runs' = [runs EXCEPT ![c] = run_next_batch(@)]
    /\ UNCHANGED <<rejected, writer, dedupVars, authVars, fetchVars, gatherVars>>
    /\ UNCHANGED <<requestVars, syncVars, consjobVars, overlapVars, storeCallVars, refreshVars, loopVars>>

RaceNext ==
    \E c \in SyncCalls :
        RunFetched(c) \/ RunReads(c) \/ RunClears(c) \/ RunWritesBatch(c)

(***************************************************************************)
(* Part 11. Direct use of the token store's functions (auth.py): the       *)
(*          store is a module the routers import, and                      *)
(*          set_external_api_token can be called with any token.           *)
(***************************************************************************)

StoreInit == last_set = "none"

\* set_external_api_token(local_token, external_api_token) is called
SetExternalApiToken ==
    \E local_token \in LocalTokens, external_api_token \in ExtTokens :
        /\ set_external_api_token(local_token, external_api_token)
        /\ last_set' = IF local_token \in DOMAIN valid_tokens
                       THEN "known" ELSE "unknown"
        /\ attached_at' = IF local_token \in DOMAIN valid_tokens
                          THEN Put(attached_at, local_token, now) ELSE attached_at
        /\ UNCHANGED <<valid_tokens, token_credentials, now, req, issued_at>>
        /\ UNCHANGED <<dedupVars, fetchVars, gatherVars, requestVars, writerVars>>
        /\ UNCHANGED <<syncVars, consjobVars, overlapVars, raceVars, refreshVars, loopVars>>

\* every step that writes the store: the two logins (create_token) and the
\* calls of set_external_api_token, of which the refresh of a session is
\* the one with a session token
StoreNext == Tick \/ Login \/ ProxyLogin \/ SetExternalApiToken

(***************************************************************************)
(* Part 12. Two requests that resolve the authorization of one expired     *)
(*          session at the same time (auth.py, refresh_external_api_token  *)
(*          85-104 and get_external_api_authorization 127-137): each       *)
(*          sends its own upstream login and the answers arrive in any     *)
(*          order.                                                         *)
(***************************************************************************)

ConcurrentRequests == {"r1", "r2"}

\* the session both requests present, issued by proxy_login at time 0 with
\* the upstream token x1
ExpiredSession == "s1"
FirstUpstreamToken == "x1"

\* the store an hour after that login
RefreshInit ==
    /\ valid_tokens = [t \in {ExpiredSession} |-> default_username]
    /\ external_api_tokens = [t \in {ExpiredSession} |-> FirstUpstreamToken]
    /\ token_timestamps = [t \in {ExpiredSession} |-> 0]
    /\ token_credentials =
           [t \in {ExpiredSession} |-> <<default_username, default_password>>]
    /\ now = EXTERNAL_TOKEN_EXPIRY_HOURS * TicksPerHour
    /\ req = [r \in ConcurrentRequests |-> IdleCall]
    /\ issued_at = [t \in {ExpiredSession} |-> 0]
    /\ attached_at = [t \in {ExpiredSession} |-> 0]
    /\ finished = <<>>

RefreshIdle == finished = <<>>

\* a request presents the session
ResolveAuthorization(r) ==
    /\ req[r].pc = "idle"
    /\ \E bearer \in BOOLEAN :
           get_external_api_authorization_begin(
               r, [bearer |-> bearer, token |-> ExpiredSession])
    /\ UNCHANGED <<now, issued_at, attached_at, finished>>
    /\ UNCHANGED notRefreshVars

\* the upstream login of a request's refresh answers
RefreshAnswer(r) ==
    /\ req[r].pc = "login"
    /\ \E response \in UpstreamResponses(token_credentials[req[r].token][1],
                                          token_credentials[req[r].token][2]) :
           /\ get_external_api_authorization_end(r, response)
           /\ attached_at' =
                  IF response \in ExtTokens
                  THEN Put(attached_at, req[r].token, now) ELSE attached_at
           /\ finished' = Append(finished,
                                 [r |-> r, response |-> response, at |-> now])
    /\ UNCHANGED <<now, issued_at>>
    /\ UNCHANGED notRefreshVars

RefreshNext ==
    \/ Tick
    \/ \E r \in ConcurrentRequests : ResolveAuthorization(r) \/ RefreshAnswer(r)

(***************************************************************************)
(* Part 13. The while loop of get_warehouse_data_for_single_warehouse      *)
(*          (main.py 157-192) against an upstream that answers every       *)
(*          request but is free in what it answers.  The loop reads the    *)
(*          page number only to build the next URL and the collected       *)
(*          records only through the count of those of its warehouse, so   *)
(*          both are kept up to a largest value that stands for every      *)
(*          larger one.                                                    *)
(***************************************************************************)

\* "total": null in the body: data.get("total", 0) is None
Null == -2

\* the 200 bodies: n items of which some carry the requested warehouse in
\* their "warehouse" field, and "total" missing, null or a number
LoopResponses ==
    {r \in [kind : {"ok"}, n : 0..PageSize, matching : 0..PageSize,
            total : {Absent, Null} \cup 0..MaxItems] : r.matching <= r.n}
        \cup {[kind |-> k, n |-> 0, matching |-> 0, total |-> Absent] :
                 k \in FailureKinds}

\* the loop at its first request: page = 1, total = None, no items
FirstRequest == [pc |-> "wait", page |-> 1, total |-> Null, matching |-> 0, n |-> 0]

\* if total is None: total = data.get("total", 0)
total_after(total, response) ==
    IF total # Null THEN total
    ELSE IF response.total = Absent THEN 0 ELSE response.total

\* one iteration, from the answer to client.get to the next request, the
\* return or the exception (168-192)
loop_iteration(l, response) ==
    IF response.kind # "ok" THEN [l EXCEPT !.pc = "raised"]
    ELSE LET total == total_after(l.total, response)
             matching == IF l.matching + response.matching > MaxItems
                         THEN MaxItems ELSE l.matching + response.matching
             page == IF l.page > MaxPages THEN l.page ELSE l.page + 1
             m == [l EXCEPT !.total = total, !.matching = matching,
                            !.page = page, !.n = response.n]
         IN IF (total # Null /\ matching >= total) \/ response.n = 0
            THEN [m EXCEPT !.pc = "returned"]
            ELSE m

LoopInit == loop = FirstRequest

\* the upstream answers the pending request
LoopResponse ==
    /\ loop.pc = "wait"
    /\ \E response \in LoopResponses : loop' = loop_iteration(loop, response)
    /\ UNCHANGED notLoopVars

LoopNext == LoopResponse

(***************************************************************************)
(* Specifications.                                                         *)
(***************************************************************************)
Init == DedupInit /\ AuthInit /\ FetchInit /\ GatherInit /\ RequestInit /\ WriterInit /\ SyncInit /\ ConsjobInit /\ OverlapInit /\ RaceInit /\ StoreInit /\ RefreshIdle /\ LoopInit
Next == DedupNext \/ AuthNext \/ FetchNext \/ GatherNext \/ RequestNext \/ WriterNext \/ SyncNext \/ ConsjobNext \/ OverlapNext \/ RaceNext \/ SetExternalApiToken \/ RefreshNext \/ LoopNext
Spec == Init /\ [][Next]_vars

\* the reconciliation alone, over every input
SpecDedup == Init /\ [][DedupNext]_vars

\* the token store alone
InitAuth == DedupIdle /\ AuthInit /\ FetchInit /\ GatherInit /\ RequestInit /\ WriterInit /\ SyncInit /\ ConsjobInit /\ OverlapInit /\ RaceInit /\ StoreInit /\ RefreshIdle /\ LoopInit
SpecAuth == InitAuth /\ [][AuthNext]_vars

\* the fetch of one source alone
InitFetch == DedupIdle /\ AuthInit /\ FetchInit /\ GatherInit /\ RequestInit /\ WriterInit /\ SyncInit /\ ConsjobInit /\ OverlapInit /\ RaceInit /\ StoreInit /\ RefreshIdle /\ LoopInit
SpecFetch == InitFetch /\ [][FetchNext]_vars

\* the concurrent fetch alone
InitGather == DedupIdle /\ AuthInit /\ FetchInit /\ GatherInit /\ RequestInit /\ WriterInit /\ SyncInit /\ ConsjobInit /\ OverlapInit /\ RaceInit /\ StoreInit /\ RefreshIdle /\ LoopInit
SpecGather == InitGather /\ [][GatherNext]_vars

\* one call of the upstream client alone
InitRequest == DedupIdle /\ AuthInit /\ FetchInit /\ GatherInit /\ RequestInit /\ WriterInit /\ SyncInit /\ ConsjobInit /\ OverlapInit /\ RaceInit /\ StoreInit /\ RefreshIdle /\ LoopInit
SpecRequest == InitRequest /\ [][RequestNext]_vars

\* the batched write alone
InitWriter == DedupIdle /\ AuthInit /\ FetchInit /\ GatherInit /\ RequestInit /\ WriterInit /\ SyncInit /\ ConsjobInit /\ OverlapInit /\ RaceInit /\ StoreInit /\ RefreshIdle /\ LoopInit
SpecWriter == InitWriter /\ [][WriterNext]_vars

\* the full resynchronisation with a reader of the table
InitSync == DedupIdle /\ AuthInit /\ FetchInit /\ GatherInit /\ RequestInit /\ SyncStored /\ ConsjobInit /\ OverlapInit /\ RaceInit /\ StoreInit /\ RefreshIdle /\ LoopInit
SpecSync == InitSync /\ [][SyncNext]_vars

\* calls of save_consjob_data alone
InitSave == DedupIdle /\ AuthInit /\ FetchInit /\ GatherInit /\ RequestInit /\ WriterInit /\ SyncInit /\ ConsjobInit /\ OverlapInit /\ RaceInit /\ StoreInit /\ RefreshIdle /\ LoopInit
SpecSave == InitSave /\ [][SaveNext]_vars

\* one sequential synchronisation of the sources alone
InitConsjob == DedupIdle /\ AuthInit /\ FetchInit /\ GatherInit /\ RequestInit /\ WriterInit /\ SyncInit /\ ConsjobInit /\ OverlapInit /\ RaceInit /\ StoreInit /\ RefreshIdle /\ LoopInit
SpecConsjob == InitConsjob /\ [][JobNext]_vars

\* overlapping calls of sync_warehouse_data alone
InitOverlap == DedupIdle /\ AuthInit /\ FetchInit /\ GatherInit /\ RequestInit /\ WriterInit /\ SyncInit /\ ConsjobInit /\ OverlapInit /\ RaceInit /\ StoreInit /\ RefreshIdle /\ LoopInit
SpecOverlap == InitOverlap /\ [][OverlapNext]_vars

\* overlapping calls of sync_warehouse_data over a stored table
InitRace == DedupIdle /\ AuthInit /\ FetchInit /\ GatherInit /\ RequestInit /\ SyncStored /\ ConsjobInit /\ OverlapInit /\ RaceInit /\ StoreInit /\ RefreshIdle /\ LoopInit
SpecRace == InitRace /\ [][RaceNext]_vars

\* the token store with direct calls of set_external_api_token
InitStore == DedupIdle /\ AuthInit /\ FetchInit /\ GatherInit /\ RequestInit /\ WriterInit /\ SyncInit /\ ConsjobInit /\ OverlapInit /\ RaceInit /\ StoreInit /\ RefreshIdle /\ LoopInit
SpecStore == InitStore /\ [][StoreNext]_vars

\* two requests resolving one expired session
InitRefresh == DedupIdle /\ RefreshInit /\ FetchInit /\ GatherInit /\ RequestInit /\ WriterInit /\ SyncInit /\ ConsjobInit /\ OverlapInit /\ RaceInit /\ StoreInit /\ LoopInit
SpecRefresh == InitRefresh /\ [][RefreshNext]_vars

\* the fetch loop of one source; the upstream answers every request
InitLoop == DedupIdle /\ AuthInit /\ FetchInit /\ GatherInit /\ RequestInit /\ WriterInit /\ SyncInit /\ ConsjobInit /\ OverlapInit /\ RaceInit /\ StoreInit /\ RefreshIdle /\ LoopInit
SpecLoop == InitLoop /\ [][LoopNext]_vars /\ WF_vars(LoopResponse)

(***************************************************************************)
(* Claims about the reconciliation.                                        *)
(***************************************************************************)
Deduplicated == sync_pc \in {"again", "done"}

\* indices of the records of items that carry the key tn
WithKey(items, tn) == {i \in 1..Len(items) : items[i].tracking_number = tn}
KeysOf(items) == {items[i].tracking_number : i \in 1..Len(items)}
RecordsOf(items) == {items[i] : i \in 1..Len(items)}
\* indices of the records that carry the largest id of their key
TopOfKey(items, tn) ==
    {i \in WithKey(items, tn) : \A j \in WithKey(items, tn) : items[j].id <= items[i].id}
MinOf(S) == CHOOSE x \in S : \A y \in S : x <= y
MaxOf(S) == CHOOSE x \in S : \A y \in S : y <= x

\* C1: the output of deduplicate_items holds no two records with the same
\* tracking_number, whatever the input list.
C1_NoDuplicateKeys ==
    Deduplicated =>
        \A i, j \in 1..Len(unique_items) :
            i # j => unique_items[i].tracking_number # unique_items[j].tracking_number

C1_Witness ==
    /\ Deduplicated
    /\ Len(all_data) = MaxLen
    /\ Len(unique_items) = 1

\* C2: for every key of the input, the record output for that key has an
\* id at least as large as the id of every input record with that key.
C2_LargestIdKept ==
    Deduplicated =>
        \A i \in 1..Len(all_data) :
            /\ WithKey(unique_items, all_data[i].tracking_number) # {}
            /\ \A j \in WithKey(unique_items, all_data[i].tracking_number) :
                   unique_items[j].id >= all_data[i].id

C2_Witness ==
    /\ Deduplicated
    /\ Len(all_data) >= 2
    /\ all_data[1].tracking_number = all_data[2].tracking_number
    /\ all_data[1].id < all_data[2].id
    /\ unique_items[1] = all_data[2]

\* C3: reconciling the reconciled set with the empty list returns the same
\* list as the first reconciliation.
C3_Idempotent == sync_pc = "done" => again_items = unique_items

C3_Witness ==
    /\ sync_pc = "done"
    /\ api_data # <<>>
    /\ existing_data # <<>>
    /\ Len(unique_items) >= 2
    /\ Len(unique_items) < Len(all_data)

\* C4 as claimed: among the input records that share a tracking_number and
\* carry its largest id, the one encountered last is the one kept.
C4_LastWins ==
    Deduplicated =>
        \A tn \in KeysOf(all_data) :
            \A j \in WithKey(unique_items, tn) :
                unique_items[j] = all_data[MaxOf(TopOfKey(all_data, tn))]

\* C4 as amended: among the input records that share a tracking_number and
\* carry its largest id, the one encountered first is the one kept.
C4_FirstWins ==
    Deduplicated =>
        \A tn \in KeysOf(all_data) :
            \A j \in WithKey(unique_items, tn) :
                unique_items[j] = all_data[MinOf(TopOfKey(all_data, tn))]

C4_Witness ==
    /\ Deduplicated
    /\ \E i, j \in 1..Len(all_data) :
        /\ i < j
        /\ all_data[i].tracking_number = all_data[j].tracking_number
        /\ all_data[i].id = all_data[j].id
        /\ all_data[i].zone # all_data[j].zone
        /\ i \in TopOfKey(all_data, all_data[i].tracking_number)
        /\ all_data[i] \in RecordsOf(unique_items)
        /\ all_data[j] \notin RecordsOf(unique_items)

ScenarioExisting == <<[id |-> 5, tracking_number |-> "T1", zone |-> "Z1"]>>
ScenarioFresh ==
    << [id |-> 7, tracking_number |-> "T1", zone |-> "Z2"],
       [id |-> 1, tracking_number |-> "T2", zone |-> "Z1"] >>

\* C5: the reconciled set holds exactly one record for each distinct
\* tracking_number of api_data + existing_data, every one of them an input
\* record taken whole; existing [{5,T1}] with fresh [{7,T1},{1,T2}] gives
\* [{7,T1},{1,T2}].
C5_OnePerKeyTakenWhole ==
    Deduplicated =>
        /\ all_data = api_data \o existing_data
        /\ KeysOf(unique_items) = KeysOf(all_data)
        /\ Len(unique_items) = Cardinality(KeysOf(all_data))
        /\ RecordsOf(unique_items) \subseteq RecordsOf(all_data)
        /\ (api_data = ScenarioFresh /\ existing_data = ScenarioExisting)
              => unique_items = ScenarioFresh

C5_Witness ==
    /\ Deduplicated
    /\ api_data = ScenarioFresh
    /\ existing_data = ScenarioExisting
    /\ unique_items = ScenarioFresh
(***************************************************************************)
(* Claims about the token store.                                           *)
(***************************************************************************)
\* r starts a call of get_external_api_authorization in this step
Begins(r) == req[r].pc \in {"idle", "done"} /\ req'[r] # req[r]
\* the upstream login awaited by r answers in this step
Answers(r) == req[r].pc = "login" /\ req'[r] # req[r]

\* C6: a session whose upstream token was attached at time T is reported
\* not expired at every time before T + 1 hour and expired at every time
\* from T + 1 hour on.
C6_ExpiryBoundary ==
    \A t \in DOMAIN attached_at :
        is_token_expired(t) <=> now >= attached_at[t] + TicksPerHour

C6_Witness ==
    \E t1, t2 \in DOMAIN attached_at :
        /\ attached_at[t1] > issued_at[t1]
        /\ now = attached_at[t1] + TicksPerHour
        /\ is_token_expired(t1)
        /\ now = attached_at[t2] + TicksPerHour - 1
        /\ ~is_token_expired(t2)

\* C7 as claimed: every session token without a recorded upstream token is
\* reported expired.
C7_NoUpstreamTokenIsExpired ==
    \A t \in DOMAIN valid_tokens :
        t \notin DOMAIN external_api_tokens => is_token_expired(t)

\* C7 as amended: a token never issued as a session is reported expired; a
\* session issued without an upstream token is reported not expired until
\* one hour after it was issued and expired from then on.
C7_ExpiredByIssueTime ==
    /\ \A t \in (LocalTokens \cup ExtTokens) \ DOMAIN valid_tokens :
           is_token_expired(t)
    /\ \A t \in DOMAIN valid_tokens \ DOMAIN external_api_tokens :
           is_token_expired(t) <=> now >= issued_at[t] + TicksPerHour

C7_Witness ==
    \E t \in DOMAIN valid_tokens \ DOMAIN external_api_tokens :
        /\ now > issued_at[t]
        /\ now < issued_at[t] + TicksPerHour
        /\ ~is_token_expired(t)

\* C8: a call for a known session token that is expired and has no stored
\* credentials fails with 401 at once, without any upstream login request.
C8_RefreshFallback ==
    [][\A r \in Requests :
          LET authorization == req'[r].authorization
              t == authorization.token
          IN  ( /\ Begins(r)
                /\ authorization # NoHeader
                /\ t \in DOMAIN valid_tokens
                /\ is_token_expired(t)
                /\ t \notin DOMAIN token_credentials )
              => /\ req'[r].pc = "done"
                 /\ req'[r].result = Unauthorized
                 /\ req'[r].calls = 0]_vars

C8_Witness ==
    \E r \in Requests :
        /\ req[r].pc = "done"
        /\ req[r].authorization # NoHeader
        /\ req[r].token \in DOMAIN valid_tokens
        /\ req[r].token \notin DOMAIN token_credentials
        /\ is_token_expired(req[r].token)
        /\ req[r].refreshes = 1
        /\ req[r].calls = 0
        /\ req[r].result = Unauthorized

\* the sessions issued by a login whose upstream login failed: the only
\* create_token call without credentials (routers/auth.py 95)
DegradedSessions(valid, credentials) == DOMAIN valid \ DOMAIN credentials

\* C37: a session that the local login issued although the upstream login
\* failed has no upstream token and no credentials, and every later call
\* of get_external_api_authorization for it fails with 401 at once, without
\* an upstream login, whether the session is expired or not.
C37_DegradedSessionUnauthorized ==
    [][/\ \A t \in DegradedSessions(valid_tokens', token_credentials') :
              t \notin DOMAIN external_api_tokens'
       /\ \A r \in Requests :
              LET authorization == req'[r].authorization IN
              ( /\ Begins(r)
                /\ authorization # NoHeader
                /\ authorization.token
                       \in DegradedSessions(valid_tokens, token_credentials) )
              => /\ req'[r].pc = "done"
                 /\ req'[r].result = Unauthorized
                 /\ req'[r].calls = 0]_vars

\* a session was issued without upstream token and credentials, and a call
\* for it, made before it expired, was answered 401 without upstream login
C37_Witness ==
    \E r \in Requests :
        LET t == req[r].token IN
        /\ req[r].pc = "done"
        /\ req[r].authorization # NoHeader
        /\ t \in DegradedSessions(valid_tokens, token_credentials)
        /\ t \in DOMAIN issued_at
        /\ t \notin DOMAIN attached_at
        /\ t \notin DOMAIN external_api_tokens
        /\ ~is_token_expired(t)
        /\ req[r].refreshes = 0
        /\ req[r].calls = 0
        /\ req[r].result = Unauthorized

\* C9: a call with a token that is no known session token returns that
\* token as the upstream bearer token, issues no upstream request and
\* leaves the four maps of the token store unchanged.
C9_PassThrough ==
    [][\A r \in Requests :
          LET authorization == req'[r].authorization
          IN  ( /\ Begins(r)
                /\ authorization # NoHeader
                /\ authorization.token \notin DOMAIN valid_tokens )
              => /\ req'[r].pc = "done"
                 /\ req'[r].result.status = 200
                 /\ req'[r].result.value.bearer
                 /\ req'[r].result.value.token = authorization.token
                 /\ req'[r].calls = 0
                 /\ UNCHANGED storeVars]_vars

C9_Witness ==
    \E r \in Requests :
        /\ req[r].pc = "done"
        /\ valid_tokens # EmptyDict
        /\ req[r].authorization.token \in ExtTokens
        /\ ~req[r].authorization.bearer
        /\ req[r].result = Ok(req[r].authorization.token)
        /\ req[r].calls = 0

\* C10: a call for a known session token that is expired makes exactly one
\* refresh attempt; when the refresh obtains a token the call returns that
\* token, which is then the cached one, and when the refresh fails the call
\* fails with 401.
C10_RefreshOnce ==
    [][\A r \in Requests :
          LET authorization == req'[r].authorization
              t == authorization.token
          IN  /\ ( /\ Begins(r)
                   /\ authorization # NoHeader
                   /\ t \in DOMAIN valid_tokens
                   /\ is_token_expired(t) )
                 => /\ req'[r].refreshes = 1
                    /\ req'[r].calls <= 1
                    /\ \/ req'[r].pc = "login"
                       \/ req'[r].pc = "done" /\ req'[r].result = Unauthorized
              /\ Answers(r)
                 => /\ req'[r].pc = "done"
                    /\ req'[r].refreshes = 1
                    /\ req'[r].calls = 1
                    /\ IF req'[r].response \in ExtTokens
                       THEN /\ req'[r].result = Ok(req'[r].response)
                            /\ external_api_tokens'[req[r].token] = req'[r].response
                       ELSE req'[r].result = Unauthorized]_vars

C10_Witness ==
    \E r \in Requests :
        /\ req[r].pc = "done"
        /\ req[r].refreshes = 1
        /\ req[r].calls = 1
        /\ req[r].cached \in ExtTokens
        /\ req[r].response \in ExtTokens
        /\ req[r].response # req[r].cached
        /\ req[r].result = Ok(req[r].response)
        /\ external_api_tokens[req[r].token] = req[r].response
\* C11: a call for a known session token that is not expired ends at once
\* without any upstream request: it returns the cached upstream token, or
\* fails with 401 when none is cached.
C11_CachedOrUnauthorized ==
    [][\A r \in Requests :
          LET authorization == req'[r].authorization
              t == authorization.token
          IN  ( /\ Begins(r)
                /\ authorization # NoHeader
                /\ t \in DOMAIN valid_tokens
                /\ ~is_token_expired(t) )
              => /\ req'[r].pc = "done"
                 /\ req'[r].calls = 0
                 /\ req'[r].refreshes = 0
                 /\ req'[r].result =
                        IF t \in DOMAIN external_api_tokens
                        THEN Ok(external_api_tokens[t])
                        ELSE Unauthorized
                 /\ UNCHANGED storeVars]_vars

C11_Witness ==
    \E r \in Requests :
        /\ req[r].pc = "done"
        /\ req[r].token \in DOMAIN attached_at
        /\ attached_at[req[r].token] > issued_at[req[r].token]
        /\ ~is_token_expired(req[r].token)
        /\ req[r].calls = 0
        /\ req[r].result = Ok(external_api_tokens[req[r].token])
        /\ \E t \in DOMAIN valid_tokens : t \notin DOMAIN external_api_tokens

\* C12: refresh_external_api_token never raises; when no credentials are
\* recorded, when the upstream login raises, or when its response has no
\* access_token, it returns None and leaves the cached upstream token and
\* its timestamp as they were.
C12_RefreshSwallowsFailures ==
    [][\A r \in Requests :
          LET authorization == req'[r].authorization
              t == authorization.token
          IN  /\ req'[r].refreshed # "Raised"
              /\ req'[r].result.status # 500
              /\ ( /\ Begins(r)
                   /\ authorization # NoHeader
                   /\ t \in DOMAIN valid_tokens
                   /\ is_token_expired(t)
                   /\ t \notin DOMAIN token_credentials )
                 => /\ req'[r].refreshed = "None"
                    /\ UNCHANGED <<external_api_tokens, token_timestamps>>
              /\ (Answers(r) /\ req'[r].response \notin ExtTokens)
                 => /\ req'[r].refreshed = "None"
                    /\ UNCHANGED <<external_api_tokens, token_timestamps>>]_vars

C12_Witness ==
    \E r \in Requests :
        /\ req[r].pc = "done"
        /\ req[r].response = "malformed"
        /\ req[r].refreshed = "None"
        /\ req[r].cached \in ExtTokens
        /\ external_api_tokens[req[r].token] = req[r].cached
        /\ is_token_expired(req[r].token)
        /\ req[r].result = Unauthorized

\* C13: every session has at most one cached upstream token; when
\* set_external_api_token attaches a token to a session that already had
\* one, the cached token is the one just attached, its timestamp is the
\* current time and the session is not expired right after.
C13_AttachOverwrites ==
    [][/\ \A t \in DOMAIN external_api_tokens' :
             /\ t \in DOMAIN valid_tokens'
             /\ external_api_tokens'[t] \in ExtTokens
       /\ \A r \in Requests :
             (Answers(r) /\ req'[r].response \in ExtTokens)
             => /\ external_api_tokens'[req[r].token] = req'[r].response
                /\ token_timestamps'[req[r].token] = now
                /\ ~(is_token_expired(req[r].token))'
                /\ \A t \in DOMAIN external_api_tokens \ {req[r].token} :
                       external_api_tokens'[t] = external_api_tokens[t]]_vars

C13_Witness ==
    \E r \in Requests :
        /\ req[r].pc = "done"
        /\ req[r].cached \in ExtTokens
        /\ req[r].response \in ExtTokens
        /\ req[r].response # req[r].cached
        /\ external_api_tokens[req[r].token] = req[r].response
        /\ token_timestamps[req[r].token] = now
        /\ now > issued_at[req[r].token]
        /\ ~is_token_expired(req[r].token)

\* C14: a session token, once issued, stays in valid_tokens with the same
\* username and the same stored credentials (or none) over every step of
\* the token store.
C14_SessionsAreStable ==
    [][\A t \in DOMAIN valid_tokens :
          /\ t \in DOMAIN valid_tokens'
          /\ valid_tokens'[t] = valid_tokens[t]
          /\ (t \in DOMAIN token_credentials') <=> (t \in DOMAIN token_credentials)
          /\ t \in DOMAIN token_credentials
             => token_credentials'[t] = token_credentials[t]]_vars

C14_Witness ==
    \E t1, t2 \in DOMAIN valid_tokens :
        /\ valid_tokens[t1] # valid_tokens[t2]
        /\ t1 \in DOMAIN token_credentials
        /\ t2 \notin DOMAIN token_credentials
        /\ t1 \in DOMAIN attached_at
        /\ attached_at[t1] > issued_at[t1]
        /\ issued_at[t2] > issued_at[t1]
        /\ \E r \in Requests : req[r].pc = "done" /\ req[r].token = t2

(***************************************************************************)
(* Claims about the paginated fetch of one source.                         *)
(***************************************************************************)

\* the pages 1..n in increasing order
PagesUpTo(n) == [i \in 1..n |-> i]

\* the items of the first n answered requests that succeeded, in the order
\* of the requests
RECURSIVE ItemsOfPages(_, _)
ItemsOfPages(outcomes, n) ==
    IF n = 0 THEN <<>>
    ELSE ItemsOfPages(outcomes, n - 1)
            \o (IF outcomes[n].kind = "ok" THEN PageItems(n, outcomes[n]) ELSE <<>>)

Answered == 1..Len(fetch.outcomes)
AllPagesOk == \A i \in Answered : fetch.outcomes[i].kind = "ok"
FailedPages == {i \in Answered : fetch.outcomes[i].kind # "ok"}
Ceil(a, b) == (a + b - 1) \div b

\* C16: when every page request succeeds and the first page reports
\* total_pages, the fetch requests pages 1, 2, ..., total_pages once each in
\* increasing order and returns the concatenation of their items in that
\* order, reported as a success with total_items the number of items.
C16_AllPagesInOrder ==
    (/\ fetch.pc = "done"
     /\ AllPagesOk
     /\ fetch.outcomes[1].total_pages >= 1)
        => /\ fetch.requested = PagesUpTo(fetch.outcomes[1].total_pages)
           /\ fetch.result.success
           /\ fetch.result.items = ItemsOfPages(fetch.outcomes, Len(fetch.outcomes))
           /\ fetch.result.total_items = Len(fetch.result.items)

\* two full pages and a last page of one item: every record is fetched
C16_Witness ==
    /\ fetch.pc = "done"
    /\ Len(fetch.outcomes) = 3
    /\ AllPagesOk
    /\ fetch.outcomes[1].total_pages = 3
    /\ fetch.outcomes[1].n = PageSize
    /\ fetch.outcomes[2].n = PageSize
    /\ fetch.outcomes[3].n = 1
    /\ Len(fetch.result.items) = 2 * PageSize + 1

\* C17: when the first page's pagination carries a total record count but
\* no total_pages, the fetch requests ceil(total / page_size) pages.
C17_PagesFromTotal ==
    (/\ fetch.pc = "done"
     /\ AllPagesOk
     /\ fetch.outcomes[1].total_pages = Absent
     /\ fetch.outcomes[1].total >= 1)
        => fetch.requested = PagesUpTo(Ceil(fetch.outcomes[1].total, PageSize))

\* C18: once a page of the source returned zero items, no further page of
\* that source is requested.
C18_StopsAtEmptyPage ==
    \A i \in Answered :
        (fetch.outcomes[i].kind = "ok" /\ fetch.outcomes[i].n = 0)
            => Len(fetch.requested) = i

\* C19 as stated: a failed page request never aborts the source; the source
\* is reported successful whichever page failed.
C19_NoPageFailureAborts ==
    (fetch.pc = "done" /\ FailedPages # {}) => fetch.result.success

\* C19 as amended: a failure of a page request after the first does not
\* abort the source: the failed page is skipped, every later page up to
\* total_pages is still requested, and the source is reported successful
\* with the items of the pages that succeeded; a failure of the first page
\* request aborts the source with no further request.
C19_LaterPageFailureSkipped ==
    (fetch.pc = "done" /\ FailedPages # {})
        => IF 1 \in FailedPages
           THEN fetch.requested = <<1>> /\ ~fetch.result.success
           ELSE /\ fetch.requested
                       = PagesUpTo(IF fetch.outcomes[1].total_pages >= 1
                                   THEN fetch.outcomes[1].total_pages ELSE 1)
                /\ fetch.result.success
                /\ fetch.result.items
                       = ItemsOfPages(fetch.outcomes, Len(fetch.outcomes))

\* the second of three pages failed and the third was still fetched
C19_Witness ==
    /\ fetch.pc = "done"
    /\ FailedPages = {2}
    /\ fetch.requested = <<1, 2, 3>>
    /\ fetch.outcomes[1].n >= 1
    /\ fetch.outcomes[3].n >= 1
    /\ fetch.result.success
    /\ Len(fetch.result.items) = fetch.outcomes[1].n + fetch.outcomes[3].n

HardKinds == {"unauthorized", "unreachable"}

\* C20 as stated: the fetch of a source fails exactly when some page
\* request met a 401 or an unreachable host, with that error.
C20_OnlyHardFailuresFail ==
    fetch.pc = "done"
        => (~fetch.result.success
                <=> \E i \in Answered : fetch.outcomes[i].kind \in HardKinds)

\* C20 as amended: the fetch of a source fails exactly when its first page
\* request fails, whatever the failure (401, unreachable host, another
\* upstream status, an unreadable body), and then reports the originating
\* error with no items; a failure of a later page request, a 401 or an
\* unreachable host included, never fails the fetch.
C20_FirstPageFailureFails ==
    fetch.pc = "done"
        => /\ ~fetch.result.success <=> fetch.outcomes[1].kind # "ok"
           /\ ~fetch.result.success
                  => /\ fetch.result.error = fetch.outcomes[1].kind
                     /\ fetch.result.items = <<>>
                     /\ fetch.result.total_items = 0

\* a later page met a 401 or an unreachable host and the source succeeded
C20_Witness ==
    /\ fetch.pc = "done"
    /\ fetch.result.success
    /\ \E i \in Answered : i >= 2 /\ fetch.outcomes[i].kind \in HardKinds


(***************************************************************************)
(* Claims about the concurrent fetch of several sources.                   *)
(***************************************************************************)

RaisedSources == {w \in WarehouseCodes : tasks[w].pc = "raised"}
\* the records of source w in the combined result, in their order there
CombinedOf(w) == SelectSeq(gather.all_items, LAMBDA i : i.warehouse = w)

\* C15: in one call of get_warehouse_data_concurrent in which the fetch of
\* some source raised, the call still returns, every other source's fetch
\* ran to its end, and the combined result holds the full list of every
\* source that returned, in the order of its pages, and nothing of a source
\* that raised.
C15_FailureIsolation ==
    (gather.pc = "done" /\ gather.token = "ok" /\ RaisedSources # {})
        => /\ gather.outcome = "returned"
           /\ \A w \in WarehouseCodes : TaskFinished(tasks[w])
           /\ \A w \in WarehouseCodes \ RaisedSources :
                  CombinedOf(w) = tasks[w].all_items
           /\ \A w \in RaisedSources : CombinedOf(w) = <<>>
           /\ Len(gather.all_items)
                  = Len(CombinedOf(Warehouses[1])) + Len(CombinedOf(Warehouses[2]))

\* the first source raised after its first page, the second returned more
\* than one page, all of it in the combined result
C15_Witness ==
    /\ gather.pc = "done"
    /\ gather.outcome = "returned"
    /\ tasks[Warehouses[1]].pc = "raised"
    /\ tasks[Warehouses[2]].pc = "returned"
    /\ Len(tasks[Warehouses[2]].all_items) > PageSize
    /\ gather.all_items = tasks[Warehouses[2]].all_items


(***************************************************************************)
(* Claims about one call of the upstream client.                           *)
(***************************************************************************)

Is2xx(status_code) == 200 <= status_code /\ status_code < 300

\* C28: every upstream call ends in exactly one of: the parsed body when
\* the upstream answered with success; a 401 error when it answered 401; an
\* error carrying the upstream status code and detail message when it
\* answered with another non-2xx status; a 503 error when the connection
\* failed or timed out.
C28_FourOutcomes ==
    client.pc = "done"
        => LET answer == client.answer
               outcome == client.outcome
           IN \/ /\ answer.kind = "response"
                 /\ Is2xx(answer.status_code)
                 /\ outcome = Returned(answer.body)
              \/ /\ answer.kind = "response"
                 /\ answer.status_code = 401
                 /\ outcome = Raised("HTTPException", 401, "auth_failed")
              \/ /\ answer.kind = "response"
                 /\ ~Is2xx(answer.status_code)
                 /\ answer.status_code # 401
                 /\ outcome.kind = "HTTPException"
                 /\ outcome.status_code = answer.status_code
                 /\ outcome.detail \in {"upstream_detail", "request_failed"}
              \/ /\ answer.kind = "RequestError"
                 /\ outcome = Raised("HTTPException", 503, "unreachable")

\* C29: a call of login or get_scan_records issues exactly one HTTP
\* request, whether it succeeds or fails: one request is out while the call
\* waits and one has been made when it ends.
C29_OneRequestPerCall ==
    client.requests = IF client.pc = "idle" THEN 0 ELSE 1

\* a call that failed on a connection error made one request
C29_Witness ==
    /\ client.pc = "done"
    /\ client.operation.name = "get_scan_records"
    /\ client.answer.kind = "RequestError"
    /\ client.outcome.status_code = 503
    /\ client.requests = 1


(***************************************************************************)
(* Claims about the batched write.                                         *)
(***************************************************************************)

RECURSIVE Flatten(_)
Flatten(seqs) == IF seqs = <<>> THEN <<>> ELSE Head(seqs) \o Flatten(Tail(seqs))

IdsOf(records) == {records[n].id : n \in 1..Len(records)}
DistinctIds(records) == Cardinality(IdsOf(records)) = Len(records)
\* the last record of the sequence that carries the id
LastWithId(records, id) ==
    records[MaxOf({n \in 1..Len(records) : records[n].id = id})]
IsRejected(r) == r.id \in rejected

\* C21: when insert_items_batch ends, every record the storage accepts has
\* been written, whether its batch was written whole or one record at a
\* time, and every record the storage rejects has been skipped and logged
\* once: the table holds exactly the accepted records (the last one of each
\* id), so N records of distinct ids with one rejected leave N-1 rows and
\* N-1 reported records.
C21_FallbackIsolatesRecord ==
    writer.pc = "done"
        => /\ DOMAIN table = IdsOf(writer.items) \ rejected
           /\ \A id \in DOMAIN table : table[id] = LastWithId(writer.items, id)
           /\ writer.failed = SelectSeq(writer.items, IsRejected)
           /\ DistinctIds(writer.items)
                  => /\ Len(writer.inserted_items)
                            = Len(writer.items) - Len(writer.failed)
                     /\ Cardinality(DOMAIN table) = Len(writer.inserted_items)

\* three records, the second of which the storage rejects: two are written
C21_Witness ==
    /\ writer.pc = "done"
    /\ Len(writer.items) = 3
    /\ DistinctIds(writer.items)
    /\ rejected = {writer.items[2].id}
    /\ Len(writer.failed) = 1
    /\ Cardinality(DOMAIN table) = 2
    /\ Len(writer.inserted_items) = 2

\* C31: a storage failure while writing one batch, a failure to obtain the
\* connection of the single-record fallback included, is recovered inside
\* insert_items_batch: the call never ends in an exception, it goes on to
\* the later batches and returns.
C31_BatchFailureRecovered == writer.pc # "raised"

\* C30: insert_items_batch cuts its input into consecutive batches of at
\* most batch_size records, processed in input order: the batches processed
\* so far, put end to end, are the beginning of the input, every batch but
\* the last is full and none is empty, and at the end they are the whole
\* input.
C30_BatchesPartitionInput ==
    LET done_items == Flatten(writer.batches) IN
    /\ done_items = SubSeq(writer.items, 1, Len(done_items))
    /\ \A b \in 1..Len(writer.batches) :
           /\ Len(writer.batches[b]) >= 1
           /\ Len(writer.batches[b]) <= BatchSize
           /\ b < Len(writer.batches) => Len(writer.batches[b]) = BatchSize
    /\ writer.pc = "done" => done_items = writer.items

\* an input one record longer than a batch was cut into two batches
C30_Witness ==
    /\ writer.pc = "done"
    /\ Len(writer.items) = BatchSize + 1
    /\ Len(writer.batches) = 2
    /\ Len(writer.batches[2]) = 1


\* C36: get_warehouse_data never raises: whatever the upstream answers, the
\* call ends with a result whose total_items is the number of its items;
\* when success is false the items are empty, total_items is 0 and error
\* holds the failure; when it is true there is no error.
C36_AlwaysReturnsResult ==
    /\ fetch.pc \in {"idle", "wait", "done"}
    /\ fetch.pc = "done" =>
           LET r == fetch.result IN
           /\ r.total_items = Len(r.items)
           /\ r.success => r.error = "None"
           /\ ~r.success => /\ r.items = <<>>
                             /\ r.total_items = 0
                             /\ r.error \in FailureKinds
                             /\ r.error = fetch.outcomes[1].kind

\* the first page came back as a body that cannot be used, and the call
\* returned a failed result
C36_Witness ==
    /\ fetch.pc = "done"
    /\ ~fetch.result.success
    /\ fetch.outcomes = <<Failure("malformed")>>
    /\ fetch.result.error = "malformed"
    /\ fetch.result.total_items = 0

(***************************************************************************)
(* Claims about the full resynchronisation.                                *)
(***************************************************************************)

IsPrefixOf(p, q) == Len(p) <= Len(q) /\ p = SubSeq(q, 1, Len(p))
Happened(e) == \E n \in 1..Len(events) : events[n] = e
ResyncSteps ==
    <<"called", "fetched", "read", "reconciled", "deleted", "insert", "returned">>
RowsOf(rows) == {rows[id] : id \in DOMAIN rows}

\* C22: the steps of a full resync occur in this order: the fetch of the
\* sources ends, the existing rows are read, the reconciled set is computed
\* from both, all rows are deleted, and only then does the writer start;
\* until the delete the table is as the run found it, and no batch is
\* written before it.
C22_ResyncOrder ==
    /\ \/ IsPrefixOf(events, ResyncSteps)
       \/ events = <<"called", "raised">>
       \/ events = Append(SubSeq(ResyncSteps, 1, 6), "raised")
    /\ Happened("read") => RecordsOf(existing_data) = RowsOf(before)
    /\ Happened("reconciled")
           => unique_items = deduplicate_items(api_data \o existing_data)
    /\ ~Happened("deleted") => table = before /\ writer = IdleWriter
    /\ writer.batches # <<>> => Happened("deleted")

\* a run over a table that held rows went through every step and left rows
C22_Witness ==
    /\ sync_pc = "done"
    /\ events = ResyncSteps
    /\ before # EmptyTable
    /\ Len(api_data) > 0
    /\ Len(writer.batches) > 0
    /\ RowsOf(table) = RecordsOf(unique_items)

\* C23: a reader that counts the rows of the table after the delete of a
\* full resync and before its first write finds none, whatever the table
\* held before and will hold after: the table is empty throughout that gap.
C23_ReaderSeesEmptyTable ==
    /\ InGap => table = EmptyTable
    /\ (observed.seen /\ observed.in_gap) => observed.count = 0

\* a reader saw no rows in the gap of a run that found rows and left rows
C23_Witness ==
    /\ observed.seen
    /\ observed.in_gap
    /\ observed.count = 0
    /\ before # EmptyTable
    /\ sync_pc = "done"
    /\ table # EmptyTable

\* the records a run has seen: the rows it found and the records it fetched
SeenRecords == RowsOf(before) \cup RecordsOf(api_data)
\* the largest id seen for a tracking number
LargestIdOf(tn) ==
    CHOOSE id \in Ids :
        /\ \E r \in SeenRecords : r.tracking_number = tn /\ r.id = id
        /\ \A r \in SeenRecords : r.tracking_number = tn => r.id <= id
\* every tracking number seen is stored, with the largest id seen for it
NothingLost ==
    \A r \in SeenRecords :
        \E id \in DOMAIN table :
            /\ table[id].tracking_number = r.tracking_number
            /\ table[id].id = LargestIdOf(r.tracking_number)
\* no id is carried by records of two tracking numbers
IdentityIsUnique ==
    \A a, b \in SeenRecords : a.id = b.id => a.tracking_number = b.tracking_number

\* C32 as stated: a run whose storage writes all succeed loses no stored
\* record: every tracking number stored before the run or fetched in it is
\* stored after it, with the largest id seen for it.
C32_NoRecordLost == sync_pc = "done" => NothingLost

\* C32 amended: the same, for runs in which no id is carried by records of
\* two different tracking numbers (the table's key is the id, so of two
\* such records the one written later replaces the other).
C32_NoRecordLostWithUniqueIds ==
    (sync_pc = "done" /\ IdentityIsUnique) => NothingLost

\* a run that found a row, fetched a record of the same tracking number
\* with a larger id and a record of another one, and stored both
C32_Witness ==
    /\ sync_pc = "done"
    /\ IdentityIsUnique
    /\ events = ResyncSteps
    /\ \E r \in RowsOf(before) : \E n \in 1..Len(api_data) :
           api_data[n].tracking_number = r.tracking_number /\ api_data[n].id > r.id
    /\ Cardinality(DOMAIN table) = 2
    /\ NothingLost

(***************************************************************************)
(* Claims about the table consjob and the sequential synchronisation.      *)
(***************************************************************************)

\* C24: after any sequence of save_consjob_data calls no two rows share the
\* same (tracking_number, order_id, warehouse), and the number of rows
\* equals the number of distinct keys successfully written.
C24_OneRowPerKey ==
    /\ \A m, n \in 1..Len(consjob) :
           KeyOf(consjob[m]) = KeyOf(consjob[n]) => m = n
    /\ Len(consjob) = Cardinality(saved)

RECURSIVE SumOf(_, _)
SumOf(entries, field) ==
    IF entries = <<>> THEN 0
    ELSE Head(entries)[field] + SumOf(Tail(entries), field)

\* C25: the report of a synchronisation has exactly one entry per requested
\* source, successful_warehouses + failed_warehouses = total_warehouses,
\* total_items_fetched and total_items_saved are the sums of the entries'
\* items_fetched and items_saved, and an entry has an error exactly when
\* its success flag is false.
C25_ReportConsistent ==
    job.outcome.kind = "report" =>
        LET r == job.outcome
            e == r.warehouse_results
        IN /\ Len(e) = Len(job.warehouses_to_sync)
           /\ \A n \in 1..Len(e) : e[n].warehouse = job.warehouses_to_sync[n]
           /\ r.total_warehouses = Len(job.warehouses_to_sync)
           /\ r.successful_warehouses + r.failed_warehouses = r.total_warehouses
           /\ r.successful_warehouses
                  = Cardinality({n \in 1..Len(e) : e[n].success})
           /\ r.total_items_fetched = SumOf(e, "items_fetched")
           /\ r.total_items_saved = SumOf(e, "items_saved")
           /\ \A n \in 1..Len(e) : (e[n].error # "None") <=> ~e[n].success

\* a report over every source with a failed fetch, a failed save and a
\* success that saved fewer items than it fetched
C25_Witness ==
    /\ job.outcome.kind = "report"
    /\ Len(job.outcome.warehouse_results) = Len(Warehouses)
    /\ \E n \in 1..Len(job.results) :
           job.results[n].success /\ job.results[n].storage = "raises"
    /\ \E n \in 1..Len(job.outcome.warehouse_results) :
           LET e == job.outcome.warehouse_results[n]
           IN e.success /\ e.items_saved < e.items_fetched

\* the items of a list whose statement succeeds
Writable(items) == {m \in 1..Len(items) : ~StatementFails(items[m])}

\* C39: save_consjob_data returns exactly the number of items whose upsert
\* succeeded: an item whose write fails is skipped and the items after it
\* are still written, and an empty input returns 0 without touching the
\* storage (also when the storage cannot be reached).
C39_CountsSuccessfulUpserts ==
    /\ job.outcome.kind = "result" =>
           job.outcome.items_saved = Cardinality(Writable(job.results[1].items))
    /\ \A n \in 1..Len(job.warehouse_results) :
           LET result == job.results[n]
               e == job.warehouse_results[n]
           IN result.success =>
               IF result.items = <<>>
               THEN e.success /\ e.items_saved = 0
               ELSE IF result.storage = "raises"
               THEN ~e.success /\ e.items_saved = 0
               ELSE /\ e.success
                    /\ e.items_saved = Cardinality(Writable(result.items))
                    /\ \A m \in Writable(result.items) :
                           \E k \in 1..Len(consjob) :
                               KeyOf(consjob[k]) = KeyOf(result.items[m])

\* a source whose first item failed and whose second was written, and a
\* source with no items while the storage could not be reached
C39_Witness ==
    /\ job.pc = "done"
    /\ \E n \in 1..Len(job.warehouse_results) :
           /\ Len(job.results[n].items) = 2
           /\ job.results[n].storage = "ok"
           /\ StatementFails(job.results[n].items[1])
           /\ ~StatementFails(job.results[n].items[2])
           /\ job.warehouse_results[n].items_saved = 1
    /\ \E n \in 1..Len(job.warehouse_results) :
           /\ job.results[n].success
           /\ job.results[n].items = <<>>
           /\ job.results[n].storage = "raises"
           /\ job.warehouse_results[n].success

\* the request names a warehouse code that is not in WAREHOUSES
NamesUnknownCode ==
    /\ job.endpoint # "none"
    /\ job.warehouse \notin {"None", ""}
    /\ job.warehouse \notin WarehouseCodes

\* nothing was fetched from upstream and nothing was written
NothingFetchedNothingWritten ==
    /\ job.results = <<>>
    /\ job.warehouse_results = <<>>
    /\ consjob = <<>>
    /\ saved = {}

C26_AllUnreachableIsHardFailure ==
    (/\ job.pc = "done"
     /\ job.results # <<>>
     /\ \A n \in 1..Len(job.results) :
            ~job.results[n].success /\ job.results[n].error = "unreachable")
        => job.outcome.kind = "HTTPException"

\* C27: at no time are two fetches of the same source in flight, also when
\* a second call of sync_warehouse_data starts while an earlier one runs.
C27_OneFetchPerSource ==
    \A w \in WarehouseCodes :
        Cardinality({c \in SyncCalls : syncs[c].tasks[w] = "in_flight"}) <= 1

RunRecords ==
    RowsOf(before) \cup UNION {RecordsOf(runs[c].api_data) : c \in SyncCalls}

\* C33: when calls of sync_warehouse_data overlap, with every write
\* succeeding, every tracking number stored before they started is still
\* stored after all have completed, under every interleaving.  (Stated for
\* runs in which no id is carried by records of two tracking numbers, so
\* that a loss is a loss by interleaving.)
C33_OverlapLosesNothing ==
    (/\ \A c \in SyncCalls : runs[c].pc = "done"
     /\ \A a, b \in RunRecords : a.id = b.id => a.tracking_number = b.tracking_number)
        => \A r \in RowsOf(before) :
               \E id \in DOMAIN table : table[id].tracking_number = r.tracking_number

(***************************************************************************)
(* Claims about the token store as a whole.                                *)
(***************************************************************************)

\* C34: in every reachable state of the token store the keys of
\* token_timestamps are the keys of valid_tokens, and the keys of
\* external_api_tokens and of token_credentials are among them; a call of
\* set_external_api_token for a token that is no session adds nothing.
C34_StoreKeysConsistent ==
    /\ DOMAIN token_timestamps = DOMAIN valid_tokens
    /\ DOMAIN external_api_tokens \subseteq DOMAIN valid_tokens
    /\ DOMAIN token_credentials \subseteq DOMAIN valid_tokens

\* set_external_api_token was just called for a token that is no session,
\* while one session has an upstream token and credentials and the other
\* token is still unknown
C34_Witness ==
    /\ last_set = "unknown"
    /\ DOMAIN valid_tokens # {}
    /\ DOMAIN valid_tokens # LocalTokens
    /\ DOMAIN external_api_tokens = DOMAIN valid_tokens

(***************************************************************************)
(* Claims about two requests refreshing one expired session.               *)
(***************************************************************************)

GotToken(f) == f.response \in ExtTokens
\* the refreshes that stored a token, in the order of their completion
StoredRefreshes == SelectSeq(finished, GotToken)
BothFinished ==
    /\ \A r \in ConcurrentRequests : req[r].pc = "done"
    /\ Len(finished) = 2

\* a request that refreshed returns the token its own upstream login gave
OwnTokenReturned ==
    \A r \in ConcurrentRequests :
        (req[r].pc = "done" /\ req[r].refreshes = 1)
            => IF req[r].response \in ExtTokens
               THEN req[r].result = Ok(req[r].response)
               ELSE req[r].result = Unauthorized

\* C35 as stated: when two requests refresh the same expired session at
\* the same time, after both finish the session's cached upstream token is
\* the token of the refresh that completed last, with a timestamp that
\* makes the session not expired.
C35_LastRefreshIsCached ==
    BothFinished
        => /\ OwnTokenReturned
           /\ external_api_tokens[ExpiredSession] = finished[2].response
           /\ token_timestamps[ExpiredSession] = finished[2].at
           /\ now = finished[2].at => ~is_token_expired(ExpiredSession)

\* C35 amended: each request that succeeds returns the token of its own
\* upstream login; once a refresh has succeeded the session's one cached
\* upstream token is the token of the refresh that succeeded last, stamped
\* with the time of that refresh (so the session is not expired then); as
\* long as none has succeeded the stale token and its stamp stay.
C35_LastSuccessfulRefreshIsCached ==
    /\ OwnTokenReturned
    /\ DOMAIN external_api_tokens = {ExpiredSession}
    /\ IF StoredRefreshes = <<>>
       THEN /\ external_api_tokens[ExpiredSession] = FirstUpstreamToken
            /\ token_timestamps[ExpiredSession] = 0
       ELSE LET last == StoredRefreshes[Len(StoredRefreshes)] IN
            /\ external_api_tokens[ExpiredSession] = last.response
            /\ token_timestamps[ExpiredSession] = last.at
            /\ now = last.at => ~is_token_expired(ExpiredSession)

\* both requests found the session expired and refreshed it, their logins
\* gave different tokens, and the one that answered last is cached
C35_Witness ==
    /\ BothFinished
    /\ \A r \in ConcurrentRequests : req[r].result.status = 200
    /\ finished[1].response # finished[2].response
    /\ finished[1].at = finished[2].at
    /\ external_api_tokens[ExpiredSession] = finished[2].response
    /\ req[finished[1].r].result = Ok(finished[1].response)

(***************************************************************************)
(* Claims about the fetch loop of one source.                              *)
(***************************************************************************)

\* C38: the fetch loop of get_warehouse_data_for_single_warehouse ends for
\* every upstream that answers each page request: it cannot request pages
\* forever.
C38_FetchLoopTerminates == <>(loop.pc \in {"returned", "raised"})

====
